---------------------------- MODULE Spec2Model ----------------------------
(***************************************************************************)
(* Model of the streaming_quotes server: the tick-driven Timer, the        *)
(* StreamReader framer, the length-prefixed wire protocol, the quote       *)
(* Generator worker, the per-connection Streamer (QuotesStream) and        *)
(* Handler (CommandHandler) workers, and the Server Root (QuotesServer).   *)
(*                                                                         *)
(* Every worker thread is a loop `timer.sleep(); poll events`.  One step   *)
(* of a worker is the run of loop iterations up to and including the first *)
(* one after whose sleep some event is expired: the iterations before it   *)
(* change nothing but the timer counters (LoopSleep).                      *)
(***************************************************************************)
EXTENDS Integers, Sequences, FiniteSets, TLC

(***************************************************************************)
(* Program constants.                                                      *)
(***************************************************************************)
TICK_MILLIS == 10
STREAMING_TIMEOUT_MILLIS == 1000
CHECK_TCP_CMD_MILLIS == 100
HANDLE_CMD_PERIOD_MILLIS == 300
CHECK_PING_MILLIS == 100
PING_WAIT_MILLIS == 40000
PING_PERIOD_MILLIS == 30000
WAIT_PONG_MILLIS == 5000
CLIENT_HANDLE_CMD_PERIOD_MILLIS == 300
WAIT_QUOTES_MILLIS == 100
ACCEPT_MILLIS == 100
GEN_HANDLE_CMD_PERIOD_MILLIS == 100
WAIT_CALLBACK_MILLIS == 100
READ_BUF_LEN == 512
LEN_PREFIX == 4

STREAM_EVENT == "stream"
WAIT_CMD_EVENT == "cmd"
CHECK_PING_EVENT == "check_ping"
CHECK_TCP_CMD_EVENT == "check_tcp_cmd"
ACCEPT_EVENT == "accept"
WAIT_CALLBACK_EVENT == "callback"
WAIT_PING_EVENT == "ping"
WAIT_PONG_EVENT == "pong"
WAIT_QUOTES_EVENT == "quotes"

(***************************************************************************)
(* Bounds of the model.                                                    *)
(***************************************************************************)
MaxSessions == 3
MaxReqs == 2
MaxChunk == 7
MaxBatches == 3
MaxTicks == 50
MaxStreamTicks == 210
MaxGenPhase == 0
MaxPingTick == 20
MaxLiveTicks == 30
MaxDatagrams == 1
MaxStopTick == 240
MaxBusyTick == 60
MaxClients == 2
MaxQuoteDatagrams == 2
MaxPongDatagrams == 2
MaxCallbacks == 3
MaxPollTicks == 70
MaxPairTicks == 7200
MaxClientPhase == 1
MaxSleeps == 4
MaxFed == 4
MaxChunkLen == 3
VolumeBits == 3

(***************************************************************************)
(* Small helpers.                                                          *)
(***************************************************************************)
Min2(a, b) == IF a <= b THEN a ELSE b
Max2(a, b) == IF a >= b THEN a ELSE b
MinOf(S) == CHOOSE x \in S : \A y \in S : x <= y
Range(s) == {s[k] : k \in 1..Len(s)}
Take(s, n) == SubSeq(s, 1, n)
Drop(s, n) == SubSeq(s, n + 1, Len(s))

\* F applied to the value of x (x is evaluated once).
With(F(_), x) == CHOOSE r \in {F(v) : v \in {x}} : TRUE

(***************************************************************************)
(* timer.rs: Event and Timer.  A timer is a function from the registered   *)
(* event names to their events.                                            *)
(***************************************************************************)
NewEvent(bound_millis) == [counter |-> 0, bound |-> bound_millis]

EventTick(e) ==
    IF e.counter < (e.bound \div TICK_MILLIS)
    THEN [e EXCEPT !.counter = @ + 1]
    ELSE e

EventIsExpired(e) == e.counter >= (e.bound \div TICK_MILLIS)

EmptyTimer == [n \in {} |-> NewEvent(0)]

TimerSleep(t) == [n \in DOMAIN t |-> EventTick(t[n])]

AddEvent(t, name, bound_millis) ==
    [n \in (DOMAIN t) \cup {name} |->
        IF n = name THEN NewEvent(bound_millis) ELSE t[n]]

\* A remove_event that leaves the event registered.
KeepEvent(t, name) == t

RemoveEvent(t, name) == [n \in (DOMAIN t) \ {name} |-> t[n]]

ResetEvent(t, name) == [t EXCEPT ![name].counter = 0]

IsExpiredEvent(t, name) == EventIsExpired(t[name])

\* Ticks a worker sleeps before its loop body next finds an expired event:
\* at least one (every iteration sleeps once).
TicksToDue(t) ==
    Max2(1, MinOf({(t[n].bound \div TICK_MILLIS) - t[n].counter : n \in DOMAIN t}))

\* k sleeps in a row: every counter advances k ticks or stops at its bound.
SleepTimes(t, k) ==
    [n \in DOMAIN t |->
        [t[n] EXCEPT !.counter = Max2(@, Min2(@ + k, t[n].bound \div TICK_MILLIS))]]

\* The sleeps of the idle iterations and of the one that finds work.
LoopSleep(t) == SleepTimes(t, TicksToDue(t))

(***************************************************************************)
(* protocol.rs: the Message codec (postcard) and the length prefix.        *)
(* Bytes are 0..255; a ticker symbol is its UTF-8 byte string.             *)
(***************************************************************************)
AMD == <<65, 77, 68>>
INT == <<73, 78, 84>>
XYZ == <<88, 89, 90>>

TickersMsg(port, tickers) == [tag |-> "Tickers", port |-> port, tickers |-> tickers]
PingMsg == [tag |-> "Ping"]
PongMsg == [tag |-> "Pong"]
UnknownMsg == [tag |-> "Unknown"]
QuoteMsg(q) == [tag |-> "Quote", quote |-> q]

RECURSIVE Varint(_)
Varint(n) ==
    IF n < 128 THEN <<n>> ELSE <<128 + (n % 128)>> \o Varint(n \div 128)

EncStr(s) == Varint(Len(s)) \o s

RECURSIVE EncStrs(_)
EncStrs(ss) == IF ss = <<>> THEN <<>> ELSE EncStr(Head(ss)) \o EncStrs(Tail(ss))

\* The price (f64, 8 little-endian bytes) is not modelled: its bytes are zero.
EncF64 == <<0, 0, 0, 0, 0, 0, 0, 0>>

to_stdvec(msg) ==
    CASE msg.tag = "Quote" ->
            <<0>> \o EncStr(msg.quote.ticker) \o EncF64
                  \o Varint(msg.quote.volume) \o Varint(msg.quote.timestamp)
      [] msg.tag = "Tickers" ->
            <<1>> \o Varint(msg.port) \o Varint(Len(msg.tickers)) \o EncStrs(msg.tickers)
      [] msg.tag = "Ping" -> <<2>>
      [] msg.tag = "Pong" -> <<3>>
      [] msg.tag = "Unknown" -> <<4>>

to_be_bytes(n) ==
    <<(n \div 16777216) % 256, (n \div 65536) % 256, (n \div 256) % 256, n % 256>>

from_be_bytes(b) == b[1] * 16777216 + b[2] * 65536 + b[3] * 256 + b[4]

pack_message_with_len(msg) == to_be_bytes(Len(to_stdvec(msg))) \o to_stdvec(msg)

\* Decoders return [ok, val, rest]; a failed decode has ok = FALSE.
DecFail == [ok |-> FALSE, val |-> 0, rest |-> <<>>]

RECURSIVE DecVarint(_, _)
DecVarint(b, maxBytes) ==
    IF b = <<>> \/ maxBytes = 0 THEN DecFail
    ELSE IF Head(b) < 128 THEN [ok |-> TRUE, val |-> Head(b), rest |-> Tail(b)]
    ELSE LET r == DecVarint(Tail(b), maxBytes - 1)
         IN IF r.ok THEN [r EXCEPT !.val = (Head(b) - 128) + 128 * r.val] ELSE DecFail

DecStr(b) ==
    With(LAMBDA l :
            IF l.ok /\ Len(l.rest) >= l.val /\ \A k \in 1..l.val : l.rest[k] < 128
            THEN [ok |-> TRUE, val |-> Take(l.rest, l.val), rest |-> Drop(l.rest, l.val)]
            ELSE DecFail,
         DecVarint(b, 10))

RECURSIVE DecStrs(_, _)
DecStrs(b, n) ==
    IF n = 0 THEN [ok |-> TRUE, val |-> <<>>, rest |-> b]
    ELSE With(LAMBDA s :
                IF ~s.ok THEN DecFail
                ELSE With(LAMBDA r :
                            IF r.ok THEN [r EXCEPT !.val = <<s.val>> \o @] ELSE DecFail,
                          DecStrs(s.rest, n - 1)),
              DecStr(b))

DecTickers(b) ==
    With(LAMBDA p :
            IF ~p.ok \/ p.val > 65535 THEN DecFail
            ELSE With(LAMBDA n :
                        IF ~n.ok THEN DecFail
                        ELSE With(LAMBDA ts :
                                    IF ts.ok
                                    THEN [ok |-> TRUE, val |-> TickersMsg(p.val, ts.val),
                                          rest |-> ts.rest]
                                    ELSE DecFail,
                                  DecStrs(n.rest, n.val)),
                      DecVarint(p.rest, 10)),
         DecVarint(b, 3))

DecQuote(b) ==
    With(LAMBDA s :
            IF ~s.ok \/ Len(s.rest) < 8 THEN DecFail
            ELSE With(LAMBDA v :
                        IF ~v.ok THEN DecFail
                        ELSE With(LAMBDA t :
                                    IF ~t.ok THEN DecFail
                                    ELSE [ok |-> TRUE,
                                          val |-> QuoteMsg([ticker |-> s.val, volume |-> v.val,
                                                            timestamp |-> t.val]),
                                          rest |-> t.rest],
                                  DecVarint(v.rest, 10)),
                      DecVarint(Drop(s.rest, 8), 5)),
         DecStr(b))

\* postcard::from_bytes: decodes one Message from the front, ignores the rest.
from_bytes(bytes) ==
    With(LAMBDA b :
            IF b = <<>> THEN DecFail
            ELSE CASE Head(b) = 0 -> DecQuote(Tail(b))
                   [] Head(b) = 1 -> DecTickers(Tail(b))
                   [] Head(b) = 2 -> [ok |-> TRUE, val |-> PingMsg, rest |-> Tail(b)]
                   [] Head(b) = 3 -> [ok |-> TRUE, val |-> PongMsg, rest |-> Tail(b)]
                   [] Head(b) = 4 -> [ok |-> TRUE, val |-> UnknownMsg, rest |-> Tail(b)]
                   [] OTHER -> DecFail,
         bytes)

(***************************************************************************)
(* The universe of the model: the server's ticker configuration, the       *)
(* subscription requests a client may send, the frames a client may write  *)
(* on the stream and the datagrams that may arrive at a Streamer's socket. *)
(***************************************************************************)
Sessions == 1..MaxSessions

\* quote.rs Ticker records of the configuration file (the price is not modelled).
TickerCfg ==
    [t \in {AMD, INT} |->
        IF t = AMD THEN [upper_bound_volume |-> 9, lower_bound_volume |-> 3]
                   ELSE [upper_bound_volume |-> 6, lower_bound_volume |-> 2]]

Configured == DOMAIN TickerCfg

VolumeDraws == {0, 5, 2147483647}

Requests ==
    {[port |-> 8000, tickers |-> <<AMD>>],
     [port |-> 8001, tickers |-> <<INT, XYZ>>]}

GarbageMsg == [tag |-> "Garbage"]

\* What a client may write: framed Tickers requests, a framed Ping (a valid
\* message that is not a request) and a frame whose body does not decode.
Frames ==
    {[msg |-> TickersMsg(r.port, r.tickers),
      bytes |-> pack_message_with_len(TickersMsg(r.port, r.tickers))] : r \in Requests}
    \cup {[msg |-> PingMsg, bytes |-> pack_message_with_len(PingMsg)],
          [msg |-> GarbageMsg, bytes |-> <<0, 0, 0, 1, 9>>]}

Addrs == {"client", "stranger"}

\* Datagrams that may arrive at the Streamer's socket: [bytes, from], or an
\* error the read surfaces ("reset": ICMP port unreachable, "io": any other).
Datagrams ==
    {[kind |-> "data", bytes |-> to_stdvec(PingMsg), from |-> a] : a \in Addrs}
    \cup {[kind |-> "data", bytes |-> to_stdvec(PongMsg), from |-> "client"],
          [kind |-> "data", bytes |-> <<>>, from |-> "client"],
          [kind |-> "reset", bytes |-> <<>>, from |-> "client"],
          [kind |-> "io", bytes |-> <<>>, from |-> "client"]}

(***************************************************************************)
(* State.                                                                  *)
(***************************************************************************)
VARIABLES
    \* Server Root (QuotesServer::start)
    rootPc,            \* "run", "stop_handlers", "join_handler", "join_gen", "done"
    rootTimer,
    rootChan,          \* the root's control channel (commands from main)
    rootConnected,     \* ServerControl.tx is alive
    rootResult,        \* "none", "ok", "err": the server thread's return value
    handlers,          \* Vec of started Handlers (session ids), accept order
    listener,          \* connections waiting in the listener's backlog
    shutIdx,           \* position of the shutdown loop in handlers
    \* Generator (QuoteGenerator::start_generate_quote)
    genPc,             \* "run", "done"
    genTimer,
    genChan,           \* GeneratorCmd channel
    genConnected,      \* gen_control.tx is alive
    cbq,               \* the callback channel: queued QuotesSender values
    timestamp_counter,
    tickerOrder,       \* iteration order of the tickers HashMap
    \* Handlers (CommandHandler::start), per session
    hPc,               \* "idle", "run", "join", "done"
    hTimer,
    hChan,             \* HanlerControl.tx -> rx
    hConnected,        \* HanlerControl.tx is alive
    hState,            \* HandlerState: [tag |-> "WaitPackLen"] or [tag |-> "WaitPack", len]
    reader,            \* StreamReader.buf
    hResult,
    hExit,             \* why the Handler left its loop
    \* Streamers (QuotesStream::start), per session
    sPc,               \* "idle", "start", "run", "done"
    sTimer,
    sChan,             \* QuotesStreamControl.tx -> rx
    sConnected,        \* QuotesStreamControl.tx is alive
    need_quotes,
    cur_client_port,   \* 0 is None
    wait_ping_counter,
    sResult,
    sExit,             \* why the Streamer left its loop
    \* Network
    conn,              \* client's end of the stream: "none", "open", "closed", "reset"
    wire,              \* bytes written by the client, not yet at the server
    rcv,               \* bytes in the server's socket buffer, not yet read
    udpIn,             \* datagrams waiting at the Streamer's socket
    \* History (observations only)
    written,           \* messages the client wrote, in order
    fwd,               \* requests the Handler forwarded to its Streamer, in order
    quotesSeen,        \* the Streamer has processed a Quotes command
    submitted,         \* the Streamer has submitted a callback
    sockSent,          \* kinds of datagram sent from the Streamer's socket
    cliGot,            \* <<port, ticker>> of the Quote datagrams delivered
    lastCall,          \* the Generator's most recent callback invocation
    stopPlaced,        \* main has sent Stop to the Server Root
    \* Real time (timed specifications only)
    wake,              \* ticks until each running worker's next step
    clock,             \* ticks since the server started, then since Stop was placed
    \* Client receive worker (QuotesClient::start_receive_quotes)
    rPc,               \* "idle", "run", "stop_ping", "join_ping", "done"
    rTimer,
    rChan,             \* ClientControl.tx -> rx
    rConnected,        \* ClientControl.tx is alive
    ping_control,      \* Option<PingControl> is Some
    rResult,           \* the thread's return value: "none", "ok" or the error
    rExit,             \* why the receive worker left its loop
    \* Client PING worker (PingPong::start)
    pPc,               \* "idle", "run", "done"
    pTimer,
    pState,            \* PingState: "WaitPing", "WaitPong"
    pChan,             \* PingControl.tx -> rx
    pConnected,        \* PingControl.tx is alive
    pResult,
    pExit,             \* why the PING worker left its loop
    pinged,            \* the addresses the PING worker has sent a Ping to, in order
    server_addr,       \* PingPong.server_addr
    arrived,           \* datagrams that have reached the client's two sockets
    quoteIn,           \* datagrams waiting at the client's receive socket
    pongIn,            \* datagrams waiting at the PING worker's socket
    printed,           \* quotes printed to stdout (a count)
    cWake,             \* ticks until each running client worker's next step
    \* Units exercised on their own
    unitTimer,         \* a Timer
    sinceReset,        \* per event: sleeps since its last add_event or reset_event
    unitReader,        \* a StreamReader's buf
    fed,               \* every byte read_from_stream has appended, in order
    taken,             \* every byte extract_chunk has returned, in order
    lastChunk,         \* extract_chunk's most recent call and result
    unitTicker,        \* QuoteGenerator::new's result for a one-ticker config
    unitVolume         \* the outcome of the latest volume computation

rootVars == <<rootPc, rootTimer, rootChan, rootConnected, rootResult, handlers, listener,
              shutIdx>>
genVars == <<genPc, genTimer, genChan, genConnected, cbq, timestamp_counter, tickerOrder>>
hVars == <<hPc, hTimer, hChan, hConnected, hState, reader, hResult, hExit>>
sVars == <<sPc, sTimer, sChan, sConnected, need_quotes, cur_client_port,
           wait_ping_counter, sResult, sExit>>
netVars == <<conn, wire, rcv, udpIn>>
obsVars == <<written, fwd, quotesSeen, submitted, sockSent, cliGot, lastCall, stopPlaced>>
timeVars == <<wake, clock>>
clientVars == <<rPc, rTimer, rChan, rConnected, ping_control, rResult, rExit, pPc, pTimer,
                pState, pChan, pConnected, pResult, pExit, pinged, server_addr, arrived, quoteIn,
                pongIn, printed, cWake>>
unitVars == <<unitTimer, sinceReset, unitReader, fed, taken, lastChunk, unitTicker,
              unitVolume>>
\* What no worker of the server touches.
farVars == <<clientVars, unitVars>>
vars == <<rootVars, genVars, hVars, sVars, netVars, obsVars, timeVars, farVars>>

(***************************************************************************)
(* The client and the units under test when a specification leaves them    *)
(* out: no client thread is started, nothing is exercised.                 *)
(***************************************************************************)
NoClient ==
    /\ rPc = "idle"
    /\ rTimer = EmptyTimer
    /\ rChan = <<>>
    /\ rConnected = FALSE
    /\ ping_control = FALSE
    /\ rResult = "none"
    /\ rExit = "none"
    /\ pPc = "idle"
    /\ pTimer = EmptyTimer
    /\ pState = "WaitPing"
    /\ pChan = <<>>
    /\ pConnected = FALSE
    /\ pResult = "none"
    /\ pExit = "none"
    /\ pinged = <<>>
    /\ server_addr = "none"
    /\ arrived = [q |-> 0, p |-> 0]
    /\ quoteIn = <<>>
    /\ pongIn = <<>>
    /\ printed = 0
    /\ cWake = [r |-> 0, p |-> 0]

NoTicker == [ok |-> FALSE, upper_bound_volume |-> 0, lower_bound_volume |-> 0]

NoVolume == [outcome |-> "none", volume |-> 0]

NoUnits ==
    /\ unitTimer = EmptyTimer
    /\ sinceReset = <<>>
    /\ unitReader = <<>>
    /\ fed = <<>>
    /\ taken = <<>>
    /\ lastChunk = [n |-> 0, some |-> FALSE, chunk |-> <<>>]
    /\ unitTicker = NoTicker
    /\ unitVolume = NoVolume

(***************************************************************************)
(* Control commands and channels (std::sync::mpsc).                        *)
(***************************************************************************)
StopCmd == [tag |-> "Stop"]
NoopCmd == [tag |-> "Noop"]
QuotesCmd(req) == [tag |-> "Quotes", req |-> req]

\* A poll that takes a dropped sender for an empty channel.
cmd_from_queue(chan, connected) == IF chan # <<>> THEN Head(chan) ELSE NoopCmd

\* try_recv: a queued command first; Disconnected only when the queue is
\* empty and every sender is gone, and that reads as Stop.
cmd_from_channel(chan, connected) ==
    IF chan # <<>> THEN Head(chan)
    ELSE IF ~connected THEN StopCmd
    ELSE NoopCmd

Receive(chan) == IF chan # <<>> THEN Tail(chan) ELSE chan

\* A channel that hands out its newest message first.
try_recv_newest(chan) == [val |-> chan[Len(chan)], rest |-> Take(chan, Len(chan) - 1)]

\* Receiver::try_recv on a channel that holds a message: the oldest one.
try_recv(chan) == [val |-> Head(chan), rest |-> Tail(chan)]

(***************************************************************************)
(* utils.rs: StreamReader.                                                 *)
(***************************************************************************)
\* read_from_stream: one read of up to 512 bytes.  Ok(len) appends the bytes
\* (Ok(0), the end of the stream, appends nothing); WouldBlock is Ok; any
\* other error (here a connection reset) is returned.
read_from_stream(buf, sockbuf, connState) ==
    IF sockbuf # <<>>
    THEN LET len == Min2(Len(sockbuf), READ_BUF_LEN)
         IN [ok |-> TRUE, buf |-> buf \o Take(sockbuf, len), sockbuf |-> Drop(sockbuf, len)]
    ELSE IF connState = "reset"
    THEN [ok |-> FALSE, buf |-> buf, sockbuf |-> sockbuf]
    ELSE [ok |-> TRUE, buf |-> buf, sockbuf |-> sockbuf]

\* A framer that hands out what is buffered when the buffer is shorter than
\* the chunk asked for.
extract_chunk_partial(buf, chunk_len) ==
    [some |-> TRUE, chunk |-> Take(buf, Min2(Len(buf), chunk_len)),
     buf |-> Drop(buf, Min2(Len(buf), chunk_len))]

\* extract_chunk: Some(first chunk_len bytes) or None.
extract_chunk(buf, chunk_len) ==
    IF Len(buf) < chunk_len
    THEN [some |-> FALSE, chunk |-> <<>>, buf |-> buf]
    ELSE [some |-> TRUE, chunk |-> Take(buf, chunk_len), buf |-> Drop(buf, chunk_len)]

(***************************************************************************)
(* quote.rs: generate_quotes.  One quote per configured ticker, in the     *)
(* map's iteration order, all with the current timestamp_counter.          *)
(***************************************************************************)
volume_range(t) == t.upper_bound_volume - t.lower_bound_volume

\* A generator that stamps the quotes of a batch one after another.
generate_quotes_running(order, ts, draws) ==
    [k \in 1..Len(order) |->
        [ticker |-> order[k],
         volume |-> (draws[order[k]] % volume_range(TickerCfg[order[k]]))
                        + TickerCfg[order[k]].lower_bound_volume,
         timestamp |-> ts + k - 1]]

generate_quotes(order, ts, draws) ==
    [k \in 1..Len(order) |->
        [ticker |-> order[k],
         volume |-> (draws[order[k]] % volume_range(TickerCfg[order[k]]))
                        + TickerCfg[order[k]].lower_bound_volume,
         timestamp |-> ts]]

Orders(S) == {o \in [1..Cardinality(S) -> S] : Range(o) = S}

(***************************************************************************)
(* quotes_server.rs: QuotesSender, the callback a Streamer gives to the    *)
(* Generator.                                                              *)
(***************************************************************************)
QuotesSenderAll(sid, port, need) ==
    [sid |-> sid, port |-> port, need_quotes |-> Range(need) \cup Configured, sub |-> need]

QuotesSenderNew(sid, port, need) ==
    [sid |-> sid, port |-> port, need_quotes |-> Range(need), sub |-> need]

\* handle: sends a Quote datagram for every quote of the batch whose ticker
\* is in need_quotes; the first encode or send failure returns the error
\* (failAt counts the send attempts, 0 is no failure).
handle_unfiltered(cb, quotes, failAt) ==
    [ok |-> failAt = 0,
     sent |-> [k \in 1..(IF failAt = 0 THEN Len(quotes) ELSE failAt - 1) |->
                [to |-> cb.port, quote |-> quotes[k]]]]

RECURSIVE handle(_, _, _)
handle(cb, quotes, failAt) ==
    IF quotes = <<>> THEN [ok |-> TRUE, sent |-> <<>>]
    ELSE IF Head(quotes).ticker \notin cb.need_quotes
    THEN handle(cb, Tail(quotes), failAt)
    ELSE IF failAt = 1 THEN [ok |-> FALSE, sent |-> <<>>]
    ELSE LET r == handle(cb, Tail(quotes), IF failAt = 0 THEN 0 ELSE failAt - 1)
         IN [r EXCEPT !.sent = <<[to |-> cb.port, quote |-> Head(quotes)]>> \o @]

(***************************************************************************)
(* quotes_server.rs: QuotesStream (the Streamer).                          *)
(***************************************************************************)
\* A limit as short as the client's period between Pings.
PingLimitOfOnePeriod == PING_PERIOD_MILLIS \div CHECK_PING_MILLIS

PingLimit == PING_WAIT_MILLIS \div CHECK_PING_MILLIS

\* The Streamer's UDP socket is shared (Arc) with the callbacks it built:
\* the port stays bound while the thread or a queued callback holds it.
SocketHeld(i) == sPc[i] = "run" \/ \E k \in 1..Len(cbq) : cbq[k].sid = i

PortInUse == \E i \in Sessions : SocketHeld(i)

\* A check_ping that reports every datagram it receives and does not refuse
\* as an answered Ping.
check_ping_any(inbox, pongFails) ==
    IF inbox = <<>> THEN [res |-> "false", pong |-> "none"]
    ELSE LET d == Head(inbox)
         IN IF d.kind = "reset" THEN [res |-> "false", pong |-> "none"]
            ELSE IF d.kind = "io" THEN [res |-> "err", pong |-> "none"]
            ELSE IF Len(d.bytes) = 0 THEN [res |-> "true", pong |-> "none"]
            ELSE IF ~from_bytes(d.bytes).ok THEN [res |-> "err", pong |-> "none"]
            ELSE IF from_bytes(d.bytes).val.tag # "Ping" THEN [res |-> "err", pong |-> "none"]
            ELSE IF pongFails THEN [res |-> "err", pong |-> "none"]
            ELSE [res |-> "true", pong |-> d.from]

\* check_ping: one recv_from.  "true": a Ping was answered; "false": nothing
\* to read (would-block, connection reset, empty datagram); "err": a read
\* error, an undecodable or non-Ping message, or a failed send.
check_ping(inbox, pongFails) ==
    IF inbox = <<>> THEN [res |-> "false", pong |-> "none"]
    ELSE LET d == Head(inbox)
         IN IF d.kind = "reset" THEN [res |-> "false", pong |-> "none"]
            ELSE IF d.kind = "io" THEN [res |-> "err", pong |-> "none"]
            ELSE IF Len(d.bytes) = 0 THEN [res |-> "false", pong |-> "none"]
            ELSE IF ~from_bytes(d.bytes).ok THEN [res |-> "err", pong |-> "none"]
            ELSE IF from_bytes(d.bytes).val.tag # "Ping" THEN [res |-> "err", pong |-> "none"]
            ELSE IF pongFails THEN [res |-> "err", pong |-> "none"]
            ELSE [res |-> "true", pong |-> d.from]

\* The thread's first statements: bind 127.0.0.1:34254, register the events.
StreamerStart(i) ==
    /\ sPc[i] = "start"
    /\ IF PortInUse
       THEN /\ sPc' = [sPc EXCEPT ![i] = "done"]
            /\ sResult' = [sResult EXCEPT ![i] = "err"]
            /\ sExit' = [sExit EXCEPT ![i] = "bind"]
            /\ UNCHANGED sTimer
       ELSE /\ sPc' = [sPc EXCEPT ![i] = "run"]
            /\ sTimer' = [sTimer EXCEPT ![i] =
                    AddEvent(AddEvent(AddEvent(EmptyTimer,
                        WAIT_CMD_EVENT, HANDLE_CMD_PERIOD_MILLIS),
                        STREAM_EVENT, STREAMING_TIMEOUT_MILLIS),
                        CHECK_PING_EVENT, CHECK_PING_MILLIS)]
            /\ UNCHANGED <<sResult, sExit>>
    /\ UNCHANGED <<sChan, sConnected, need_quotes, cur_client_port, wait_ping_counter>>
    /\ UNCHANGED <<rootVars, genVars, hVars, netVars, obsVars>>

\* The stream arm submits a callback only when a client port is known.
SubmitsAlways(streamDue, port) == streamDue

Submits(streamDue, port) == streamDue /\ port # 0

\* A Streamer that adds the requested tickers to those it has.
AddQuotes(need, req) == need \o req.tickers

\* ControlCmd::Quotes(req): need_quotes = req.tickers.
TakeQuotes(need, req) == req.tickers

\* One pass of the Streamer's loop body; t0 is its timer after the sleep.
StreamerBody(i, t0, pongFails) ==
    LET cmdDue == IsExpiredEvent(t0, WAIT_CMD_EVENT)
        t1 == IF cmdDue THEN ResetEvent(t0, WAIT_CMD_EVENT) ELSE t0
        cmd == IF cmdDue THEN cmd_from_channel(sChan[i], sConnected[i]) ELSE NoopCmd
        stop == cmd.tag = "Stop"
        port1 == IF cmd.tag = "Quotes" THEN cmd.req.port ELSE cur_client_port[i]
        need1 == IF cmd.tag = "Quotes" THEN TakeQuotes(need_quotes[i], cmd.req)
                 ELSE need_quotes[i]
        pingDue == ~stop /\ IsExpiredEvent(t1, CHECK_PING_EVENT)
        t2 == IF pingDue THEN ResetEvent(t1, CHECK_PING_EVENT) ELSE t1
        ping == IF pingDue THEN check_ping(udpIn[i], pongFails)
                ELSE [res |-> "none", pong |-> "none"]
        counter1 == IF ping.res = "true" THEN 0
                    ELSE IF ping.res = "false" THEN wait_ping_counter[i] + 1
                    ELSE wait_ping_counter[i]
        pingErr == ping.res = "err"
        timeout == pingDue /\ ~pingErr /\ counter1 >= PingLimit
        streamDue == ~stop /\ ~pingErr /\ ~timeout /\ IsExpiredEvent(t2, STREAM_EVENT)
        t3 == IF streamDue THEN ResetEvent(t2, STREAM_EVENT) ELSE t2
        submit == Submits(streamDue, port1)
        sendErr == submit /\ genPc = "done"
        exit == IF stop THEN "stop"
                ELSE IF pingErr THEN "ping_error"
                ELSE IF timeout THEN "ping_timeout"
                ELSE IF sendErr THEN "send_error"
                ELSE "none"
    IN [timer |-> t3, cmdDue |-> cmdDue, cmd |-> cmd, port |-> port1, need |-> need1,
        pingDue |-> pingDue, ping |-> ping, counter |-> counter1,
        submit |-> submit /\ ~sendErr, exit |-> exit]

StreamerStep(i) ==
    /\ sPc[i] = "run"
    /\ \E pongFails \in BOOLEAN, t0 \in {LoopSleep(sTimer[i])} :
        \E b \in {StreamerBody(i, t0, pongFails)} :
           /\ (pongFails => b.pingDue /\ udpIn[i] # <<>>)
           /\ sTimer' = [sTimer EXCEPT ![i] = b.timer]
           /\ sChan' = [sChan EXCEPT ![i] =
                    IF b.exit # "none" THEN <<>> ELSE IF b.cmdDue THEN Receive(@) ELSE @]
           /\ cur_client_port' = [cur_client_port EXCEPT ![i] = b.port]
           /\ need_quotes' = [need_quotes EXCEPT ![i] = b.need]
           /\ wait_ping_counter' = [wait_ping_counter EXCEPT ![i] = b.counter]
           /\ udpIn' = [udpIn EXCEPT ![i] =
                    IF b.exit # "none" THEN <<>>
                    ELSE IF b.pingDue /\ @ # <<>> THEN Tail(@) ELSE @]
           /\ cbq' = IF b.submit
                     THEN Append(cbq, QuotesSenderNew(i, b.port, b.need))
                     ELSE cbq
           /\ sPc' = [sPc EXCEPT ![i] = IF b.exit = "none" THEN "run" ELSE "done"]
           /\ sResult' = [sResult EXCEPT ![i] = IF b.exit = "none" THEN @ ELSE "ok"]
           /\ sExit' = [sExit EXCEPT ![i] = b.exit]
           /\ quotesSeen' = [quotesSeen EXCEPT ![i] = @ \/ b.cmd.tag = "Quotes"]
           /\ submitted' = [submitted EXCEPT ![i] = @ \/ b.submit]
           /\ sockSent' = [sockSent EXCEPT ![i] =
                    IF b.ping.res = "true" THEN @ \cup {"Pong"} ELSE @]
    /\ UNCHANGED <<sConnected, conn, wire, rcv>>
    /\ UNCHANGED <<genPc, genTimer, genChan, genConnected, timestamp_counter, tickerOrder>>
    /\ UNCHANGED <<written, fwd, cliGot, lastCall, stopPlaced>>
    /\ UNCHANGED <<rootVars, hVars>>

(***************************************************************************)
(* quote.rs: the Generator worker (start_generate_quote).                  *)
(***************************************************************************)
NoCall ==
    [sid |-> 0, port |-> 0, sub |-> <<>>, cur |-> <<>>, live |-> FALSE, tickers |-> <<>>,
     stamps |-> <<>>, ts |-> 0, sent |-> <<>>, failAt |-> 0, ok |-> TRUE]

GeneratorStep ==
    /\ genPc = "run"
    /\ \E t0 \in {LoopSleep(genTimer)} :
       LET cmdDue == IsExpiredEvent(t0, WAIT_CMD_EVENT)
           t1 == IF cmdDue THEN ResetEvent(t0, WAIT_CMD_EVENT) ELSE t0
           \* Ok(Stop) and Err(Disconnected) both break
           stop == cmdDue /\ (genChan # <<>> \/ ~genConnected)
           cbDue == ~stop /\ IsExpiredEvent(t1, WAIT_CALLBACK_EVENT)
           t2 == IF cbDue THEN ResetEvent(t1, WAIT_CALLBACK_EVENT) ELSE t1
           invoke == cbDue /\ cbq # <<>>
       IN /\ genTimer' = t2
          /\ genChan' = IF cmdDue THEN Receive(genChan) ELSE genChan
          /\ genPc' = IF stop THEN "done" ELSE "run"
          /\ IF invoke
             THEN \E draws \in [Configured -> VolumeDraws], failAt \in 0..Cardinality(Configured) :
                    LET cb == try_recv(cbq).val
                        batch == generate_quotes(tickerOrder, timestamp_counter, draws)
                        r == handle(cb, batch, failAt)
                    IN /\ failAt <= Cardinality(cb.need_quotes \cap Configured)
                       /\ timestamp_counter' = timestamp_counter + 1
                       /\ cbq' = try_recv(cbq).rest
                       /\ lastCall' =
                            [sid |-> cb.sid, port |-> cb.port, sub |-> cb.sub, cur |-> need_quotes[cb.sid],
                             live |-> sPc[cb.sid] = "run",
                             tickers |-> [k \in 1..Len(batch) |-> batch[k].ticker],
                             stamps |-> [k \in 1..Len(batch) |-> batch[k].timestamp],
                             ts |-> timestamp_counter,
                             sent |-> [k \in 1..Len(r.sent) |->
                                        [to |-> r.sent[k].to, ticker |-> r.sent[k].quote.ticker]],
                             failAt |-> failAt,
                             ok |-> r.ok]
                       /\ cliGot' = cliGot \cup
                            {<<r.sent[k].to, r.sent[k].quote.ticker>> : k \in 1..Len(r.sent)}
                       /\ sockSent' = [sockSent EXCEPT ![cb.sid] =
                            IF r.sent # <<>> THEN @ \cup {"Quote"} ELSE @]
             ELSE /\ cbq' = IF stop THEN <<>> ELSE cbq
                  /\ UNCHANGED <<timestamp_counter, lastCall, cliGot, sockSent>>
    /\ UNCHANGED <<genConnected, tickerOrder>>
    /\ UNCHANGED <<written, fwd, quotesSeen, submitted, stopPlaced>>
    /\ UNCHANGED <<rootVars, hVars, sVars, netVars>>

(***************************************************************************)
(* quotes_server.rs: CommandHandler (the Handler).                         *)
(***************************************************************************)
WaitPackLen == [tag |-> "WaitPackLen", len |-> 0]
WaitPack(len) == [tag |-> "WaitPack", len |-> len]

HandlerTimer ==
    AddEvent(AddEvent(EmptyTimer, WAIT_CMD_EVENT, HANDLE_CMD_PERIOD_MILLIS),
             CHECK_TCP_CMD_EVENT, CHECK_TCP_CMD_MILLIS)

\* The check_tcp_cmd arm in state WaitPackLen.
OnWaitPackLen(buf, sockbuf, connState) ==
    LET rd == read_from_stream(buf, sockbuf, connState)
        ex == extract_chunk(rd.buf, LEN_PREFIX)
    IN IF ~rd.ok
       THEN [out |-> "break", why |-> "conn_error", state |-> WaitPackLen, rd |-> rd,
             buf |-> rd.buf, req |-> <<>>]
       ELSE IF ~ex.some
       THEN [out |-> "go", why |-> "none", state |-> WaitPackLen, rd |-> rd,
             buf |-> ex.buf, req |-> <<>>]
       ELSE [out |-> "go", why |-> "none", state |-> WaitPack(from_be_bytes(ex.chunk)),
             rd |-> rd, buf |-> ex.buf, req |-> <<>>]

\* The check_tcp_cmd arm in state WaitPack(len).
OnWaitPack(len, buf, sockbuf, connState, streamerGone) ==
    LET rd == read_from_stream(buf, sockbuf, connState)
        ex == extract_chunk(rd.buf, len)
        dec == from_bytes(ex.chunk)
    IN IF ~rd.ok
       THEN [out |-> "break", why |-> "conn_error", state |-> WaitPack(len), rd |-> rd,
             buf |-> rd.buf, req |-> <<>>]
       ELSE IF ~ex.some
       THEN [out |-> "break", why |-> "short_packet", state |-> WaitPack(len), rd |-> rd,
             buf |-> ex.buf, req |-> <<>>]
       ELSE IF ~dec.ok
       THEN [out |-> "return_err", why |-> "decode_error", state |-> WaitPack(len),
             rd |-> rd, buf |-> ex.buf, req |-> <<>>]
       ELSE IF dec.val.tag # "Tickers"
       THEN [out |-> "break", why |-> "wrong_message", state |-> WaitPack(len), rd |-> rd,
             buf |-> ex.buf, req |-> <<>>]
       ELSE IF streamerGone
       THEN [out |-> "return_err", why |-> "send_error", state |-> WaitPack(len),
             rd |-> rd, buf |-> ex.buf, req |-> <<>>]
       ELSE [out |-> "go", why |-> "none", state |-> WaitPackLen, rd |-> rd,
             buf |-> ex.buf,
             req |-> <<[port |-> dec.val.port, tickers |-> dec.val.tickers]>>]

\* One pass of the Handler's loop body; t0 is its timer after the sleep.
HandlerBody(i, t0) ==
    LET cmdDue == IsExpiredEvent(t0, WAIT_CMD_EVENT)
        t1 == IF cmdDue THEN ResetEvent(t0, WAIT_CMD_EVENT) ELSE t0
        cmd == IF cmdDue THEN cmd_from_channel(hChan[i], hConnected[i]) ELSE NoopCmd
        stop == cmd.tag = "Stop"
        tcpDue == ~stop /\ IsExpiredEvent(t1, CHECK_TCP_CMD_EVENT)
        t2 == IF tcpDue THEN ResetEvent(t1, CHECK_TCP_CMD_EVENT) ELSE t1
        arm == IF hState[i].tag = "WaitPackLen"
               THEN OnWaitPackLen(reader[i], rcv[i], conn[i])
               ELSE OnWaitPack(hState[i].len, reader[i], rcv[i], conn[i], sPc[i] = "done")
    IN [timer |-> t2, cmdDue |-> cmdDue, tcpDue |-> tcpDue, arm |-> arm,
        out |-> IF stop THEN "break" ELSE IF tcpDue THEN arm.out ELSE "go",
        why |-> IF stop THEN "stop" ELSE IF tcpDue THEN arm.why ELSE "none"]

\* Leaving the loop sends Stop to the Streamer (the result is ignored) and
\* waits for it; a `?` return drops the Streamer's control sender instead.
HandlerStep(i) ==
    /\ hPc[i] = "run"
    /\ \E t0 \in {LoopSleep(hTimer[i])} : \E b \in {HandlerBody(i, t0)} :
          /\ hTimer' = [hTimer EXCEPT ![i] = b.timer]
          /\ hChan' = [hChan EXCEPT ![i] =
                IF b.out = "return_err" THEN <<>> ELSE IF b.cmdDue THEN Receive(@) ELSE @]
          /\ hState' = [hState EXCEPT ![i] = IF b.tcpDue THEN b.arm.state ELSE @]
          /\ reader' = [reader EXCEPT ![i] = IF b.tcpDue THEN b.arm.buf ELSE @]
          /\ rcv' = [rcv EXCEPT ![i] = IF b.tcpDue THEN b.arm.rd.sockbuf ELSE @]
          /\ sChan' = [sChan EXCEPT ![i] =
                IF sPc[i] = "done" THEN @
                ELSE IF b.out = "break" THEN Append(@, StopCmd)
                ELSE IF b.out = "go" /\ b.tcpDue /\ b.arm.req # <<>>
                THEN Append(@, QuotesCmd(b.arm.req[1]))
                ELSE @]
          /\ fwd' = [fwd EXCEPT ![i] =
                IF b.out = "go" /\ b.tcpDue THEN @ \o b.arm.req ELSE @]
          /\ sConnected' = [sConnected EXCEPT ![i] = @ /\ b.out # "return_err"]
          /\ hPc' = [hPc EXCEPT ![i] =
                CASE b.out = "go" -> "run"
                  [] b.out = "break" -> "join"
                  [] b.out = "return_err" -> "done"]
          /\ hResult' = [hResult EXCEPT ![i] = IF b.out = "return_err" THEN "err" ELSE @]
          /\ hExit' = [hExit EXCEPT ![i] = b.why]
    /\ UNCHANGED <<hConnected, conn, wire, udpIn>>
    /\ UNCHANGED <<sPc, sTimer, need_quotes, cur_client_port, wait_ping_counter, sResult, sExit>>
    /\ UNCHANGED <<written, quotesSeen, submitted, sockSent, cliGot, lastCall, stopPlaced>>
    /\ UNCHANGED <<rootVars, genVars>>

\* A Handler that returns without waiting for its Streamer.
HandlerLeaves(i) ==
    /\ hPc[i] = "join"
    /\ hPc' = [hPc EXCEPT ![i] = "done"]
    /\ hResult' = [hResult EXCEPT ![i] = "ok"]
    /\ hChan' = [hChan EXCEPT ![i] = <<>>]
    /\ sConnected' = [sConnected EXCEPT ![i] = FALSE]
    /\ UNCHANGED <<hTimer, hConnected, hState, reader, hExit>>
    /\ UNCHANGED <<sPc, sTimer, sChan, need_quotes, cur_client_port, wait_ping_counter,
                   sResult, sExit>>
    /\ UNCHANGED <<rootVars, genVars, netVars, obsVars>>

\* thread_handle.join() returns the Streamer's result, which the Handler returns.
HandlerJoin(i) ==
    /\ hPc[i] = "join"
    /\ sPc[i] = "done"
    /\ hPc' = [hPc EXCEPT ![i] = "done"]
    /\ hResult' = [hResult EXCEPT ![i] = sResult[i]]
    /\ hChan' = [hChan EXCEPT ![i] = <<>>]
    /\ sConnected' = [sConnected EXCEPT ![i] = FALSE]
    /\ UNCHANGED <<hTimer, hConnected, hState, reader, hExit>>
    /\ UNCHANGED <<sPc, sTimer, sChan, need_quotes, cur_client_port, wait_ping_counter,
                   sResult, sExit>>
    /\ UNCHANGED <<rootVars, genVars, netVars, obsVars>>

(***************************************************************************)
(* quotes_server.rs: QuotesServer (the Server Root).                       *)
(***************************************************************************)
RootTimer ==
    AddEvent(AddEvent(EmptyTimer, WAIT_CMD_EVENT, HANDLE_CMD_PERIOD_MILLIS),
             ACCEPT_EVENT, ACCEPT_MILLIS)

GeneratorTimer ==
    AddEvent(AddEvent(EmptyTimer, WAIT_CMD_EVENT, GEN_HANDLE_CMD_PERIOD_MILLIS),
             WAIT_CALLBACK_EVENT, WAIT_CALLBACK_MILLIS)

\* The thread's closure returns: handlers not yet taken by the shutdown loop,
\* gen_control and callback_sender are dropped with it.
RootReturns(res) ==
    /\ rootPc' = "done"
    /\ rootResult' = res
    /\ hConnected' = [i \in Sessions |-> FALSE]
    /\ genConnected' = FALSE

\* One pass of the accept loop.  The accept event is never reset: once
\* expired it stays expired, and every later pass tries to accept.
RootStep ==
    /\ rootPc = "run"
    /\ \E t0 \in {LoopSleep(rootTimer)} :
       LET cmdDue == IsExpiredEvent(t0, WAIT_CMD_EVENT)
           t1 == IF cmdDue THEN ResetEvent(t0, WAIT_CMD_EVENT) ELSE t0
           cmd == IF cmdDue THEN cmd_from_channel(rootChan, rootConnected) ELSE NoopCmd
           stop == cmd.tag = "Stop"
           accept == ~stop /\ IsExpiredEvent(t1, ACCEPT_EVENT) /\ listener # <<>>
           c == Head(listener)
       IN /\ rootTimer' = t1
          /\ rootChan' = IF cmdDue THEN Receive(rootChan) ELSE rootChan
          /\ rootPc' = IF stop THEN "stop_handlers" ELSE "run"
          /\ shutIdx' = IF stop THEN 1 ELSE shutIdx
          /\ IF accept
             THEN /\ listener' = Tail(listener)
                  /\ handlers' = Append(handlers, c)
                  /\ hPc' = [hPc EXCEPT ![c] = "run"]
                  /\ hTimer' = [hTimer EXCEPT ![c] = HandlerTimer]
                  /\ hConnected' = [hConnected EXCEPT ![c] = TRUE]
                  /\ sPc' = [sPc EXCEPT ![c] = "start"]
                  /\ sConnected' = [sConnected EXCEPT ![c] = TRUE]
             ELSE UNCHANGED <<listener, handlers, hPc, hTimer, hConnected, sPc, sConnected>>
    /\ UNCHANGED <<rootResult, rootConnected, hChan, hState, reader, hResult, hExit>>
    /\ UNCHANGED <<sTimer, sChan, need_quotes, cur_client_port, wait_ping_counter,
                   sResult, sExit>>
    /\ UNCHANGED <<genVars, netVars, obsVars>>

\* Shutdown loop, one handler: handler.tx.send(Stop)?, then join.
RootStopHandler ==
    /\ rootPc = "stop_handlers"
    /\ IF shutIdx > Len(handlers)
       THEN \* gen_control.tx.send(Stop)?
            IF genPc = "done"
            THEN RootReturns("err") /\ UNCHANGED <<genChan, hChan, shutIdx>>
            ELSE /\ genChan' = Append(genChan, StopCmd)
                 /\ rootPc' = "join_gen"
                 /\ UNCHANGED <<rootResult, hConnected, genConnected, hChan, shutIdx>>
       ELSE IF hPc[handlers[shutIdx]] = "done"
            THEN RootReturns("err") /\ UNCHANGED <<genChan, hChan, shutIdx>>
            ELSE /\ hChan' = [hChan EXCEPT ![handlers[shutIdx]] = Append(@, StopCmd)]
                 /\ rootPc' = "join_handler"
                 /\ UNCHANGED <<rootResult, hConnected, genConnected, genChan, shutIdx>>
    /\ UNCHANGED <<rootTimer, rootChan, rootConnected, handlers, listener>>
    /\ UNCHANGED <<genPc, genTimer, cbq, timestamp_counter, tickerOrder>>
    /\ UNCHANGED <<hPc, hTimer, hState, reader, hResult, hExit>>
    /\ UNCHANGED <<sVars, netVars, obsVars>>

\* handler.thread_handle.join(): an Err result is returned at once.
RootJoinHandler ==
    /\ rootPc = "join_handler"
    /\ hPc[handlers[shutIdx]] = "done"
    /\ IF hResult[handlers[shutIdx]] = "err"
       THEN RootReturns("err") /\ UNCHANGED shutIdx
       ELSE /\ rootPc' = "stop_handlers"
            /\ shutIdx' = shutIdx + 1
            /\ hConnected' = [hConnected EXCEPT ![handlers[shutIdx]] = FALSE]
            /\ UNCHANGED <<rootResult, genConnected>>
    /\ UNCHANGED <<rootTimer, rootChan, rootConnected, handlers, listener>>
    /\ UNCHANGED <<genPc, genTimer, genChan, cbq, timestamp_counter, tickerOrder>>
    /\ UNCHANGED <<hPc, hTimer, hChan, hState, reader, hResult, hExit>>
    /\ UNCHANGED <<sVars, netVars, obsVars>>

\* gen_control.handle.join(): the Generator always returns Ok.
RootJoinGen ==
    /\ rootPc = "join_gen"
    /\ genPc = "done"
    /\ RootReturns("ok")
    /\ UNCHANGED <<rootTimer, rootChan, rootConnected, handlers, listener, shutIdx>>
    /\ UNCHANGED <<genPc, genTimer, genChan, cbq, timestamp_counter, tickerOrder>>
    /\ UNCHANGED <<hPc, hTimer, hChan, hState, reader, hResult, hExit>>
    /\ UNCHANGED <<sVars, netVars, obsVars>>

(***************************************************************************)
(* The environment: clients, the network, the operator.                    *)
(***************************************************************************)
\* A client connects: the connection waits in the listener's backlog.
Connect ==
    /\ \E c \in Sessions :
        /\ conn[c] = "none"
        /\ \A d \in Sessions : d < c => conn[d] # "none"
        /\ conn' = [conn EXCEPT ![c] = "open"]
        /\ listener' = Append(listener, c)
    /\ UNCHANGED <<rootPc, rootTimer, rootChan, rootConnected, rootResult, handlers, shutIdx>>
    /\ UNCHANGED <<wire, rcv, udpIn>>
    /\ UNCHANGED <<genVars, hVars, sVars, obsVars>>

\* The client writes one frame on its stream (write_all).
ClientWrite(i, f) ==
    /\ conn[i] = "open"
    /\ Len(written[i]) < MaxReqs
    /\ wire' = [wire EXCEPT ![i] = @ \o f.bytes]
    /\ written' = [written EXCEPT ![i] = Append(@, f.msg)]
    /\ UNCHANGED <<conn, rcv, udpIn>>
    /\ UNCHANGED <<fwd, quotesSeen, submitted, sockSent, cliGot, lastCall, stopPlaced>>
    /\ UNCHANGED <<rootVars, genVars, hVars, sVars>>

\* The network delivers the next k bytes to the server's socket.
Deliver(i, k) ==
    /\ k >= 1
    /\ k <= Len(wire[i])
    /\ rcv' = [rcv EXCEPT ![i] = @ \o Take(wire[i], k)]
    /\ wire' = [wire EXCEPT ![i] = Drop(@, k)]
    /\ UNCHANGED <<conn, udpIn>>
    /\ UNCHANGED <<rootVars, genVars, hVars, sVars, obsVars>>

\* The client closes its end: once the bytes in flight are read, reads yield 0.
ClientClose(i) ==
    /\ conn[i] = "open"
    /\ conn' = [conn EXCEPT ![i] = "closed"]
    /\ UNCHANGED <<wire, rcv, udpIn>>
    /\ UNCHANGED <<rootVars, genVars, hVars, sVars, obsVars>>

\* The connection is reset: reads fail once the socket buffer is drained.
ClientReset(i) ==
    /\ conn[i] = "open"
    /\ conn' = [conn EXCEPT ![i] = "reset"]
    /\ wire' = [wire EXCEPT ![i] = <<>>]
    /\ UNCHANGED <<rcv, udpIn>>
    /\ UNCHANGED <<rootVars, genVars, hVars, sVars, obsVars>>

\* A datagram (or a pending socket error) arrives at the Streamer's socket.
SendDatagram(i, d) ==
    /\ sPc[i] = "run"
    /\ Len(udpIn[i]) < MaxDatagrams
    /\ udpIn' = [udpIn EXCEPT ![i] = Append(@, d)]
    /\ UNCHANGED <<conn, wire, rcv>>
    /\ UNCHANGED <<rootVars, genVars, hVars, sVars, obsVars>>

\* bin/server.rs: the operator types exit, main sends Stop to the Server Root.
MainStop ==
    /\ ~stopPlaced
    /\ rootPc # "outside"
    /\ stopPlaced' = TRUE
    /\ rootChan' = IF rootPc = "done" THEN rootChan ELSE Append(rootChan, StopCmd)
    /\ UNCHANGED <<rootPc, rootTimer, rootConnected, rootResult, handlers, listener, shutIdx>>
    /\ UNCHANGED <<written, fwd, quotesSeen, submitted, sockSent, cliGot, lastCall>>
    /\ UNCHANGED <<genVars, hVars, sVars, netVars>>

\* The Server Root's side of one Handler's control channel, for the
\* specifications of a single session: Stop is sent (RootStopHandler) ...
ParentStop(i) ==
    /\ hPc[i] = "run"
    /\ hConnected[i]
    /\ hChan[i] = <<>>
    /\ hChan' = [hChan EXCEPT ![i] = Append(@, StopCmd)]
    /\ UNCHANGED <<hPc, hTimer, hConnected, hState, reader, hResult, hExit>>
    /\ UNCHANGED <<rootVars, genVars, sVars, netVars, obsVars>>

(***************************************************************************)
(* Real time.  Every worker sleeps one tick per loop iteration, so a       *)
(* running worker's next loop body comes TicksToDue ticks after its last   *)
(* one.  Workers whose bodies fall on the same tick run in any order.      *)
(* Thread starts, joins and the sends between them take no tick.           *)
(***************************************************************************)
NoWake ==
    [root |-> 0, gen |-> 0, h |-> [i \in Sessions |-> 0], s |-> [i \in Sessions |-> 0]]

PendingWakes ==
    (IF rootPc = "run" THEN {wake.root} ELSE {})
    \cup (IF genPc = "run" THEN {wake.gen} ELSE {})
    \cup {wake.h[i] : i \in {j \in Sessions : hPc[j] = "run"}}
    \cup {wake.s[i] : i \in {j \in Sessions : sPc[j] = "run"}}

\* A step that takes no time is enabled.
Urgent ==
    \/ \E i \in Sessions : sPc[i] = "start"
    \/ \E i \in Sessions : hPc[i] = "join" /\ sPc[i] = "done"
    \/ rootPc = "stop_handlers"
    \/ rootPc = "join_handler" /\ hPc[handlers[shutIdx]] = "done"
    \/ rootPc = "join_gen" /\ genPc = "done"

CanStep(w) == ~Urgent /\ PendingWakes # {} /\ w = MinOf(PendingWakes)

\* d ticks pass and worker (kind, id) has run its loop body: when each
\* server worker is due next.
WakeAfter(d, kind, id) ==
    wake' =
      [root |-> IF rootPc' # "run" THEN 0
                ELSE IF kind = "root" \/ rootPc # "run" THEN TicksToDue(rootTimer')
                ELSE wake.root - d,
       gen |-> IF genPc' # "run" THEN 0
               ELSE IF kind = "gen" \/ genPc # "run" THEN TicksToDue(genTimer')
               ELSE wake.gen - d,
       h |-> [i \in Sessions |->
               IF hPc'[i] # "run" THEN 0
               ELSE IF (kind = "h" /\ id = i) \/ hPc[i] # "run" THEN TicksToDue(hTimer'[i])
               ELSE wake.h[i] - d],
       s |-> [i \in Sessions |->
               IF sPc'[i] # "run" THEN 0
               ELSE IF (kind = "s" /\ id = i) \/ sPc[i] # "run" THEN TicksToDue(sTimer'[i])
               ELSE wake.s[i] - d]]

\* The same while nothing of the client moves.
After(d, kind, id) == UNCHANGED farVars /\ WakeAfter(d, kind, id)

Instant == After(0, "none", 0)

\* The clock of a specification that follows the run for `horizon` ticks.
Pass(d, horizon) == clock + d <= horizon /\ clock' = clock + d

\* The clock of a specification that follows the run to its end and only
\* tells its first `window` ticks apart.
Saturate(d, window) == clock' = Min2(clock + d, window)

\* The network holds no byte back for longer than `window` ticks.
Delivered(d, window) == clock + d >= window => \A i \in Sessions : wire[i] = <<>>

\* What the worker about to run finds on its socket is what matters: the
\* network hands over bytes and datagrams just before the poll that reads them.
BeforeHandlerPoll(i) == hPc[i] = "run" /\ rcv[i] = <<>> /\ CanStep(wake.h[i])

BeforeStreamerPoll(i) == sPc[i] = "run" /\ CanStep(wake.s[i])

(***************************************************************************)
(* Spec: one session.  The Server Root has accepted connection 1 and        *)
(* started its Handler; the Generator runs at any phase of its 100 ms      *)
(* period.  The root itself is outside this specification.                 *)
(***************************************************************************)
SessionStarted ==
    /\ rootPc = "outside"
    /\ rootTimer = RootTimer
    /\ rootChan = <<>>
    /\ rootConnected = FALSE
    /\ rootResult = "none"
    /\ handlers = <<1>>
    /\ listener = <<>>
    /\ shutIdx = 0
    /\ genPc = "run"
    /\ \E k \in 0..MaxGenPhase : genTimer = SleepTimes(GeneratorTimer, k)
    /\ genChan = <<>>
    /\ genConnected = TRUE
    /\ cbq = <<>>
    /\ timestamp_counter = 1
    /\ hPc = [i \in Sessions |-> IF i = 1 THEN "run" ELSE "idle"]
    /\ hTimer = [i \in Sessions |-> HandlerTimer]
    /\ hChan = [i \in Sessions |-> <<>>]
    /\ hConnected = [i \in Sessions |-> i = 1]
    /\ hState = [i \in Sessions |-> WaitPackLen]
    /\ reader = [i \in Sessions |-> <<>>]
    /\ hResult = [i \in Sessions |-> "none"]
    /\ hExit = [i \in Sessions |-> "none"]
    /\ sPc = [i \in Sessions |-> IF i = 1 THEN "start" ELSE "idle"]
    /\ sTimer = [i \in Sessions |-> EmptyTimer]
    /\ sChan = [i \in Sessions |-> <<>>]
    /\ sConnected = [i \in Sessions |-> i = 1]
    /\ need_quotes = [i \in Sessions |-> <<>>]
    /\ cur_client_port = [i \in Sessions |-> 0]
    /\ wait_ping_counter = [i \in Sessions |-> 0]
    /\ sResult = [i \in Sessions |-> "none"]
    /\ sExit = [i \in Sessions |-> "none"]
    /\ conn = [i \in Sessions |-> IF i = 1 THEN "open" ELSE "none"]
    /\ wire = [i \in Sessions |-> <<>>]
    /\ rcv = [i \in Sessions |-> <<>>]
    /\ udpIn = [i \in Sessions |-> <<>>]
    /\ written = [i \in Sessions |-> <<>>]
    /\ fwd = [i \in Sessions |-> <<>>]
    /\ quotesSeen = [i \in Sessions |-> FALSE]
    /\ submitted = [i \in Sessions |-> FALSE]
    /\ sockSent = [i \in Sessions |-> {}]
    /\ cliGot = {}
    /\ lastCall = NoCall
    /\ stopPlaced = FALSE
    /\ clock = 0
    /\ wake = [NoWake EXCEPT !.gen = TicksToDue(genTimer),
                             !.h = [i \in Sessions |-> IF i = 1 THEN TicksToDue(hTimer[i]) ELSE 0]]

InitSession == NoClient /\ NoUnits /\ SessionStarted

\* The HashMap's iteration order is fixed per process but arbitrary.
SomeOrder == CHOOSE o \in Orders(Configured) : TRUE

Init == InitSession /\ tickerOrder = SomeOrder

\* The timed steps of the workers.
TimedStreamer(i) ==
    /\ CanStep(wake.s[i])
    /\ StreamerStep(i)
    /\ After(wake.s[i], "s", i)

TimedGenerator ==
    /\ CanStep(wake.gen)
    /\ GeneratorStep
    /\ After(wake.gen, "gen", 0)

TimedHandler(i) ==
    /\ CanStep(wake.h[i])
    /\ HandlerStep(i)
    /\ After(wake.h[i], "h", i)

StartStreamer ==
    \E i \in Sessions : StreamerStart(i) /\ Instant /\ UNCHANGED clock

StepStreamer == \E i \in Sessions : TimedStreamer(i) /\ Pass(wake.s[i], MaxTicks)

StepGenerator ==
    /\ TimedGenerator
    /\ timestamp_counter' <= MaxBatches + 1
    /\ Pass(wake.gen, MaxTicks)

StepHandler == \E i \in Sessions : TimedHandler(i) /\ Pass(wake.h[i], MaxTicks)

JoinStreamer ==
    \E i \in Sessions : HandlerJoin(i) /\ Instant /\ UNCHANGED clock

Write == \E i \in Sessions, f \in Frames : ClientWrite(i, f) /\ UNCHANGED <<timeVars, farVars>>

\* The sizes the network cuts the stream into: less than a length prefix, or
\* MaxChunk bytes (the rest of the stream when less is left).
Chunks == {LEN_PREFIX - 1, MaxChunk}

Arrive ==
    \E i \in Sessions, k \in Chunks :
        BeforeHandlerPoll(i) /\ Deliver(i, Min2(k, Len(wire[i]))) /\ UNCHANGED <<timeVars, farVars>>

ArriveAll ==
    \E i \in Sessions :
        BeforeHandlerPoll(i) /\ Deliver(i, Len(wire[i])) /\ UNCHANGED <<timeVars, farVars>>

Close == \E i \in Sessions : ClientClose(i) /\ UNCHANGED <<timeVars, farVars>>

Reset == \E i \in Sessions : ClientReset(i) /\ UNCHANGED <<timeVars, farVars>>

StopSession == \E i \in Sessions : ParentStop(i) /\ UNCHANGED <<timeVars, farVars>>

Next ==
    \/ StartStreamer
    \/ StepStreamer
    \/ StepGenerator
    \/ StepHandler
    \/ JoinStreamer
    \/ Write
    \/ Arrive
    \/ ArriveAll
    \/ Close
    \/ Reset
    \/ StopSession

Spec == Init /\ [][Next]_vars

(***************************************************************************)
(* SpecStream: one session followed through its first stream events.  The  *)
(* client writes whole Tickers requests and sends or withholds its pings;  *)
(* the ticker map iterates in any order.                                   *)
(***************************************************************************)
RequestFrames == {f \in Frames : f.msg.tag = "Tickers"}

InitStream == InitSession /\ tickerOrder \in Orders(Configured)

StreamStepStreamer ==
    \E i \in Sessions : TimedStreamer(i) /\ Pass(wake.s[i], MaxStreamTicks)

StreamStepGenerator ==
    /\ TimedGenerator
    /\ timestamp_counter' <= MaxBatches + 1
    /\ Pass(wake.gen, MaxStreamTicks)

StreamStepHandler ==
    \E i \in Sessions : TimedHandler(i) /\ Pass(wake.h[i], MaxStreamTicks)

WriteRequest ==
    \E i \in Sessions, f \in RequestFrames : ClientWrite(i, f) /\ UNCHANGED <<timeVars, farVars>>

\* Datagrams reach the Streamer's socket during its first MaxPingTick ticks.
Datagram ==
    \E i \in Sessions, d \in Datagrams :
        /\ clock < MaxPingTick
        /\ BeforeStreamerPoll(i)
        /\ SendDatagram(i, d)
        /\ UNCHANGED <<timeVars, farVars>>

NextStream ==
    \/ StartStreamer
    \/ StreamStepStreamer
    \/ StreamStepGenerator
    \/ StreamStepHandler
    \/ WriteRequest
    \/ ArriveAll
    \/ Datagram

SpecStream == InitStream /\ [][NextStream]_vars

(***************************************************************************)
(* SpecLive: one session followed for as long as it lasts.  The client     *)
(* writes one request during the first MaxLiveTicks ticks, the network     *)
(* delivers it within them, in pieces or whole; the client sends no        *)
(* ping and may close its end.  No datagram is lost.  Every worker thread  *)
(* keeps running.                                                          *)
(***************************************************************************)
LiveStepStreamer ==
    \E i \in Sessions :
        /\ Delivered(wake.s[i], MaxLiveTicks)
        /\ TimedStreamer(i)
        /\ Saturate(wake.s[i], MaxLiveTicks)

LiveStepGenerator ==
    /\ Delivered(wake.gen, MaxLiveTicks)
    /\ TimedGenerator
    /\ lastCall'.failAt = 0
    /\ Saturate(wake.gen, MaxLiveTicks)

LiveStepHandler ==
    \E i \in Sessions :
        /\ Delivered(wake.h[i], MaxLiveTicks)
        /\ TimedHandler(i)
        /\ Saturate(wake.h[i], MaxLiveTicks)

WriteOnce ==
    \E i \in Sessions, f \in RequestFrames :
        /\ clock < MaxLiveTicks
        /\ written[i] = <<>>
        /\ ClientWrite(i, f)
        /\ UNCHANGED <<timeVars, farVars>>

Flush == \E i \in Sessions : Deliver(i, Len(wire[i])) /\ UNCHANGED <<timeVars, farVars>>

EarlyClose ==
    \E i \in Sessions : clock < MaxLiveTicks /\ ClientClose(i) /\ UNCHANGED <<timeVars, farVars>>

Workers ==
    \/ StartStreamer
    \/ LiveStepStreamer
    \/ LiveStepGenerator
    \/ LiveStepHandler
    \/ JoinStreamer

NextLive ==
    \/ Workers
    \/ WriteOnce
    \/ Arrive
    \/ Flush
    \/ EarlyClose

SpecLive ==
    /\ Init
    /\ [][NextLive]_vars
    /\ WF_vars(Workers)
    /\ WF_vars(Flush)

(***************************************************************************)
(* SpecServer: the whole server.  Clients connect at the ticks of          *)
(* ArrivalTicks and may write one frame at once, which arrives whole and   *)
(* without delay; MaxStopTick ticks after the start the operator stops the *)
(* server.  After Stop the clock counts the ticks since Stop.  Every       *)
(* thread keeps running.                                                   *)
(***************************************************************************)
InitServer ==
    /\ NoClient
    /\ NoUnits
    /\ rootPc = "run"
    /\ rootTimer = RootTimer
    /\ rootChan = <<>>
    /\ rootConnected = TRUE
    /\ rootResult = "none"
    /\ handlers = <<>>
    /\ listener = <<>>
    /\ shutIdx = 0
    /\ genPc = "run"
    /\ genTimer = GeneratorTimer
    /\ genChan = <<>>
    /\ genConnected = TRUE
    /\ cbq = <<>>
    /\ timestamp_counter = 1
    /\ tickerOrder = SomeOrder
    /\ hPc = [i \in Sessions |-> "idle"]
    /\ hTimer = [i \in Sessions |-> HandlerTimer]
    /\ hChan = [i \in Sessions |-> <<>>]
    /\ hConnected = [i \in Sessions |-> FALSE]
    /\ hState = [i \in Sessions |-> WaitPackLen]
    /\ reader = [i \in Sessions |-> <<>>]
    /\ hResult = [i \in Sessions |-> "none"]
    /\ hExit = [i \in Sessions |-> "none"]
    /\ sPc = [i \in Sessions |-> "idle"]
    /\ sTimer = [i \in Sessions |-> EmptyTimer]
    /\ sChan = [i \in Sessions |-> <<>>]
    /\ sConnected = [i \in Sessions |-> FALSE]
    /\ need_quotes = [i \in Sessions |-> <<>>]
    /\ cur_client_port = [i \in Sessions |-> 0]
    /\ wait_ping_counter = [i \in Sessions |-> 0]
    /\ sResult = [i \in Sessions |-> "none"]
    /\ sExit = [i \in Sessions |-> "none"]
    /\ conn = [i \in Sessions |-> "none"]
    /\ wire = [i \in Sessions |-> <<>>]
    /\ rcv = [i \in Sessions |-> <<>>]
    /\ udpIn = [i \in Sessions |-> <<>>]
    /\ written = [i \in Sessions |-> <<>>]
    /\ fwd = [i \in Sessions |-> <<>>]
    /\ quotesSeen = [i \in Sessions |-> FALSE]
    /\ submitted = [i \in Sessions |-> FALSE]
    /\ sockSent = [i \in Sessions |-> {}]
    /\ cliGot = {}
    /\ lastCall = NoCall
    /\ stopPlaced = FALSE
    /\ clock = 0
    /\ wake = [NoWake EXCEPT !.root = TicksToDue(rootTimer), !.gen = TicksToDue(genTimer)]

\* Until Stop is placed the clock may not pass `limit`; from then on it
\* counts the ticks since Stop.  No byte is in flight while time passes.
Elapse(d, limit) ==
    /\ stopPlaced \/ clock + d <= limit
    /\ \A i \in Sessions : wire[i] = <<>>
    /\ clock' = clock + d

\* The ticks (since the server's start) at which clients connect.
ArrivalTicks == {28, 57, 58}

ServerStepRoot(limit) ==
    /\ CanStep(wake.root)
    /\ RootStep
    /\ After(wake.root, "root", 0)
    /\ Elapse(wake.root, limit)

ServerStopHandler == RootStopHandler /\ Instant /\ UNCHANGED clock

ServerJoinHandler == RootJoinHandler /\ Instant /\ UNCHANGED clock

ServerJoinGen == RootJoinGen /\ Instant /\ UNCHANGED clock

ServerStepStreamer(limit) ==
    \E i \in Sessions : TimedStreamer(i) /\ Elapse(wake.s[i], limit)

ServerStepGenerator(limit) ==
    TimedGenerator /\ lastCall'.failAt = 0 /\ Elapse(wake.gen, limit)

ServerStepHandler(limit) ==
    \E i \in Sessions : TimedHandler(i) /\ Elapse(wake.h[i], limit)

Threads(limit) ==
    \/ ServerStepRoot(limit)
    \/ ServerStopHandler
    \/ ServerJoinHandler
    \/ ServerJoinGen
    \/ ServerStepStreamer(limit)
    \/ ServerStepGenerator(limit)
    \/ ServerStepHandler(limit)
    \/ StartStreamer
    \/ JoinStreamer

\* At most `clients` clients connect.
ClientConnects(clients) ==
    /\ ~stopPlaced
    /\ clock \in ArrivalTicks
    /\ Cardinality({i \in Sessions : conn[i] # "none"}) < clients
    /\ Connect
    /\ UNCHANGED <<timeVars, farVars>>

\* A client's first frame, written before its Handler's first poll.
ClientWrites(frames) ==
    \E i \in Sessions, f \in frames :
        /\ hPc[i] = "run"
        /\ hTimer[i] = HandlerTimer
        /\ written[i] = <<>>
        /\ ClientWrite(i, f)
        /\ UNCHANGED <<timeVars, farVars>>

OperatorStops(at) ==
    /\ clock = at
    /\ MainStop
    /\ wake' = wake
    /\ clock' = 0
    /\ UNCHANGED farVars

ServerThreads == Threads(MaxStopTick)

ServerStops == OperatorStops(MaxStopTick)

NextServer ==
    \/ ServerThreads
    \/ ClientConnects(MaxClients)
    \/ ClientWrites(Frames)
    \/ Flush
    \/ ServerStops

SpecServer ==
    /\ InitServer
    /\ [][NextServer]_vars
    /\ WF_vars(ServerThreads)
    /\ WF_vars(Flush)
    /\ WF_vars(ServerStops)

(***************************************************************************)
(* SpecBusy: the whole server with up to MaxSessions clients, which write  *)
(* requests only; the operator stops the server MaxBusyTick ticks after    *)
(* the start.                                                              *)
(***************************************************************************)
BusyThreads == Threads(MaxBusyTick)

BusyStops == OperatorStops(MaxBusyTick)

NextBusy ==
    \/ BusyThreads
    \/ ClientConnects(MaxSessions)
    \/ ClientWrites(RequestFrames)
    \/ Flush
    \/ BusyStops

SpecBusy ==
    /\ InitServer
    /\ [][NextBusy]_vars
    /\ WF_vars(BusyThreads)
    /\ WF_vars(Flush)
    /\ WF_vars(BusyStops)

(***************************************************************************)
(* Properties of the streaming path (SpecStream).                          *)
(***************************************************************************)
Invoked == lastCall.sid # 0

SentTickers == {lastCall.sent[k].ticker : k \in 1..Len(lastCall.sent)}

\* C1 as stated: every Quote datagram a callback sends for a Streamer carries
\* a ticker of the subscription the Streamer holds at the moment of sending.
C1_SentInCurrentSubscription ==
    Invoked => SentTickers \subseteq Range(lastCall.cur)

\* C1: every Quote datagram a callback sends for a Streamer carries a ticker
\* of the subscription the Streamer held when it submitted that callback.
C1_SentInSubmittedSubscription ==
    Invoked => SentTickers \subseteq Range(lastCall.sub)

\* A callback built from an earlier subscription was invoked, and sent, after
\* a later Quotes command had replaced the subscription.
C1_StaleCallbackSent ==
    /\ Invoked
    /\ lastCall.live
    /\ Range(lastCall.sub) # Range(lastCall.cur)
    /\ lastCall.sent # <<>>

\* C3 as stated: while a Streamer has processed no Quotes command, nothing
\* has been sent from its UDP socket and it has submitted no callback.
C3_NothingSentBeforeQuotes ==
    \A i \in Sessions : ~quotesSeen[i] => sockSent[i] = {} /\ ~submitted[i]

\* C3: while a Streamer has processed no Quotes command, no Quote datagram
\* has been sent from its UDP socket and it has submitted no callback (it
\* does answer a Ping with a Pong).
C3_NoQuoteBeforeQuotes ==
    \A i \in Sessions : ~quotesSeen[i] => "Quote" \notin sockSent[i] /\ ~submitted[i]

\* A Streamer without a subscription has answered a Ping and has run past
\* its first stream event.
C3_IdlePastStreamEvent ==
    \E i \in Sessions :
        /\ sPc[i] = "run"
        /\ ~quotesSeen[i]
        /\ "Pong" \in sockSent[i]
        /\ clock > STREAMING_TIMEOUT_MILLIS \div TICK_MILLIS

\* C4: a callback invocation in which no send fails sends exactly one Quote
\* datagram, to the subscriber's port, for each ticker that is both
\* subscribed and configured, nothing for any other ticker, and returns
\* success.
C4_SendsSubscribedConfigured ==
    Invoked /\ lastCall.failAt = 0 =>
        /\ lastCall.ok
        /\ SentTickers = Range(lastCall.sub) \cap Configured
        /\ Len(lastCall.sent) = Cardinality(Range(lastCall.sub) \cap Configured)
        /\ \A k \in 1..Len(lastCall.sent) : lastCall.sent[k].to = lastCall.port

\* A callback whose subscription names a ticker the server does not know was
\* invoked without failure and sent a datagram.
C4_UnknownTickerIgnored ==
    /\ Invoked
    /\ lastCall.failAt = 0
    /\ Range(lastCall.sub) \ Configured # {}
    /\ lastCall.sent # <<>>

(***************************************************************************)
(* Properties of the Handler's framing (Spec).                             *)
(***************************************************************************)
AllTickers(i) == \A k \in 1..Len(written[i]) : written[i][k].tag = "Tickers"

Requested(i) ==
    [k \in 1..Len(written[i]) |->
        [port |-> written[i][k].port, tickers |-> written[i][k].tickers]]

IsPrefix(a, b) == Len(a) <= Len(b) /\ a = Take(b, Len(a))

\* The stream is open, nobody has told the Handler to stop, and its
\* Streamer is there to take commands.
Undisturbed(i) ==
    /\ conn[i] = "open"
    /\ hChan[i] = <<>>
    /\ hExit[i] # "stop"
    /\ sPc[i] # "done"

\* Every byte written so far has been read and parsed.
Drained(i) ==
    /\ wire[i] = <<>>
    /\ rcv[i] = <<>>
    /\ hState[i] = WaitPackLen
    /\ Len(reader[i]) < LEN_PREFIX

\* C5 as stated: a stream of concatenated framed Tickers messages reaching
\* the Handler in small chunks over successive polls is forwarded whole: the
\* Handler keeps serving, the Quotes commands it has forwarded are the
\* requests written, in stream order, and once every byte is parsed it has
\* forwarded all of them and the framer buffer is empty.
C5_FramingRobust ==
    \A i \in Sessions :
        hPc[i] # "idle" /\ AllTickers(i) /\ Undisturbed(i) =>
            /\ hPc[i] = "run"
            /\ IsPrefix(fwd[i], Requested(i))
            /\ (Drained(i) => fwd[i] = Requested(i) /\ reader[i] = <<>>)

(***************************************************************************)
(* Properties of a whole session (SpecLive).                               *)
(***************************************************************************)
Subscribed(i) == Len(written[i]) = 1 /\ written[i][1].tag = "Tickers"

GotQuotes(i) ==
    /\ Subscribed(i)
    /\ \A t \in Range(written[i][1].tickers) \cap Configured :
        <<written[i][1].port, t>> \in cliGot

\* C2 as stated: a client that has written one framed Tickers request naming
\* a configured ticker, and keeps its stream open, eventually receives a
\* Quote datagram for that ticker on its receive port.
C2_HappyPath ==
    \A i \in Sessions : Subscribed(i) ~> (GotQuotes(i) \/ conn[i] # "open")

\* C9 as stated: once a Streamer has exited on the PING timeout, its Handler
\* eventually exits too, whatever else happens.
C9_TimeoutCascades ==
    \A i \in Sessions : (sExit[i] = "ping_timeout") ~> (hPc[i] = "done")

\* C10 as stated: once the client has closed its end of the stream, the
\* Handler eventually exits and its Streamer eventually exits.
C10_CloseTearsDown ==
    \A i \in Sessions : (conn[i] = "closed") ~> (hPc[i] = "done" /\ sPc[i] = "done")

(***************************************************************************)
(* Properties of the shutdown (SpecServer, SpecBusy).                      *)
(***************************************************************************)
Started == Range(handlers)

AllExited ==
    /\ rootPc = "done"
    /\ genPc = "done"
    /\ \A i \in Sessions : hPc[i] \in {"idle", "done"} /\ sPc[i] \in {"idle", "done"}

\* A worker of session i has failed: it returned an error or left its loop
\* for another reason than Stop.
Failed(i) ==
    \/ hResult[i] = "err"
    \/ sResult[i] = "err"
    \/ hExit[i] \notin {"none", "stop"}
    \/ sExit[i] \notin {"none", "stop"}

Healthy == handlers # <<>> /\ \A i \in Started : ~Failed(i)

\* C6: after Stop is placed on the root's control channel while sessions are
\* active, and as long as no worker of a session fails, eventually the root,
\* every Handler, every Streamer and the Generator have exited and the
\* server thread has returned success; a server thread that has returned
\* with no failed worker has returned success, and one that has returned
\* success has left no worker running; once everything has exited no
\* datagram is sent and no callback is invoked.
C6_GracefulShutdown ==
    /\ (stopPlaced /\ Healthy) ~> (~Healthy \/ (AllExited /\ rootResult = "ok"))
    /\ [](rootPc = "done" /\ Healthy => rootResult = "ok")
    /\ [](rootPc = "done" /\ rootResult = "ok" => AllExited)
    /\ [][AllExited => UNCHANGED <<sockSent, cliGot, lastCall>>]_vars

\* The server was stopped while a session was streaming Quotes to its
\* client, and has shut down with success.
C6_StreamingSessionStopped ==
    /\ AllExited
    /\ rootResult = "ok"
    /\ Healthy
    /\ cliGot # {}

\* C7 as stated: with three sessions active when Stop is placed, everything
\* has exited within 1 s (100 ticks) of Stop being placed.
C7_ShutdownBounded ==
    /\ stopPlaced
    /\ Len(handlers) = 3
    /\ \A i \in Started : hExit[i] \in {"none", "stop"}
    /\ ~AllExited
    => clock <= 1000 \div TICK_MILLIS

\* C8 as stated: in every run the Generator exits only after every Handler
\* of the root's list has exited, and the root returns only after its
\* shutdown loop has reached every Handler of its list.
C8_ShutdownOrder ==
    /\ genPc = "done" => \A i \in Started : hPc[i] = "done"
    /\ rootPc = "done" => shutIdx >= Len(handlers)


(***************************************************************************)
(* client/quotes_client.rs: the client's receive worker and PING worker.   *)
(***************************************************************************)
serverVars == <<rootVars, genVars, hVars, sVars, netVars, obsVars, wake>>

\* No server thread runs in the specifications of the client or of a unit.
NoServer ==
    /\ rootPc = "outside"
    /\ rootTimer = EmptyTimer
    /\ rootChan = <<>>
    /\ rootConnected = FALSE
    /\ rootResult = "none"
    /\ handlers = <<>>
    /\ listener = <<>>
    /\ shutIdx = 0
    /\ genPc = "idle"
    /\ genTimer = EmptyTimer
    /\ genChan = <<>>
    /\ genConnected = FALSE
    /\ cbq = <<>>
    /\ timestamp_counter = 1
    /\ tickerOrder = <<>>
    /\ hPc = [i \in Sessions |-> "idle"]
    /\ hTimer = [i \in Sessions |-> EmptyTimer]
    /\ hChan = [i \in Sessions |-> <<>>]
    /\ hConnected = [i \in Sessions |-> FALSE]
    /\ hState = [i \in Sessions |-> WaitPackLen]
    /\ reader = [i \in Sessions |-> <<>>]
    /\ hResult = [i \in Sessions |-> "none"]
    /\ hExit = [i \in Sessions |-> "none"]
    /\ sPc = [i \in Sessions |-> "idle"]
    /\ sTimer = [i \in Sessions |-> EmptyTimer]
    /\ sChan = [i \in Sessions |-> <<>>]
    /\ sConnected = [i \in Sessions |-> FALSE]
    /\ need_quotes = [i \in Sessions |-> <<>>]
    /\ cur_client_port = [i \in Sessions |-> 0]
    /\ wait_ping_counter = [i \in Sessions |-> 0]
    /\ sResult = [i \in Sessions |-> "none"]
    /\ sExit = [i \in Sessions |-> "none"]
    /\ conn = [i \in Sessions |-> "none"]
    /\ wire = [i \in Sessions |-> <<>>]
    /\ rcv = [i \in Sessions |-> <<>>]
    /\ udpIn = [i \in Sessions |-> <<>>]
    /\ written = [i \in Sessions |-> <<>>]
    /\ fwd = [i \in Sessions |-> <<>>]
    /\ quotesSeen = [i \in Sessions |-> FALSE]
    /\ submitted = [i \in Sessions |-> FALSE]
    /\ sockSent = [i \in Sessions |-> {}]
    /\ cliGot = {}
    /\ lastCall = NoCall
    /\ stopPlaced = FALSE
    /\ wake = NoWake

\* is_stop_cmd: Ok(Stop) and Err(Disconnected) are true, Err(Empty) is false.
is_stop_cmd(chan, connected) == chan # <<>> \/ ~connected

ReceiveTimer ==
    AddEvent(AddEvent(EmptyTimer, WAIT_QUOTES_EVENT, WAIT_QUOTES_MILLIS),
             WAIT_CMD_EVENT, CLIENT_HANDLE_CMD_PERIOD_MILLIS)

PingTimer ==
    AddEvent(AddEvent(EmptyTimer, WAIT_PING_EVENT, PING_PERIOD_MILLIS),
             WAIT_CMD_EVENT, CLIENT_HANDLE_CMD_PERIOD_MILLIS)

ServerAddrs == {"server", "stranger"}

\* What may arrive at the client's receive socket: a quote, a message that
\* is not a quote, bytes that do not decode, or a read error.
QuoteDatagrams ==
    {[kind |-> "data",
      bytes |-> to_stdvec(QuoteMsg([ticker |-> AMD, volume |-> 3, timestamp |-> 1])),
      from |-> "server"],
     [kind |-> "data", bytes |-> to_stdvec(PongMsg), from |-> "server"],
     [kind |-> "data", bytes |-> <<>>, from |-> "server"],
     [kind |-> "io", bytes |-> <<>>, from |-> "server"]}

\* What may arrive at the PING worker's socket.
PongDatagrams ==
    {[kind |-> "data", bytes |-> to_stdvec(PongMsg), from |-> a] : a \in ServerAddrs}
    \cup {[kind |-> "data", bytes |-> to_stdvec(PingMsg), from |-> "server"],
          [kind |-> "data", bytes |-> <<>>, from |-> "server"]}

\* A PING worker that takes a Pong from any address.
is_pong_received_from_any(sock, addr) ==
    /\ sock # <<>>
    /\ Head(sock).kind = "data"
    /\ from_bytes(Head(sock).bytes).ok
    /\ from_bytes(Head(sock).bytes).val.tag = "Pong"

\* is_pong_received: one non-blocking read; true only for a Pong from
\* server_addr.
is_pong_received(sock, addr) ==
    /\ sock # <<>>
    /\ Head(sock).kind = "data"
    /\ Head(sock).from = addr
    /\ from_bytes(Head(sock).bytes).ok
    /\ from_bytes(Head(sock).bytes).val.tag = "Pong"

\* The Pong that the worker accepts is somewhere in its socket's queue.
PongAvailable ==
    \E k \in 1..Len(pongIn) :
        /\ pongIn[k].kind = "data"
        /\ pongIn[k].from = server_addr
        /\ from_bytes(pongIn[k].bytes).ok
        /\ from_bytes(pongIn[k].bytes).val.tag = "Pong"

\* recv_quotes: "empty" (WouldBlock), "print", "ignore" (not a quote), or
\* the error: "recv", "unreachable", "spawn", "decode".  spawnOk tells whether
\* PingPong::start can bind its port.
recv_quotes(sock, control, finished, spawnOk) ==
    IF sock = <<>> THEN "empty"
    ELSE IF Head(sock).kind # "data" THEN "recv"
    ELSE IF control /\ finished THEN "unreachable"
    ELSE IF ~control /\ ~spawnOk THEN "spawn"
    ELSE IF ~from_bytes(Head(sock).bytes).ok THEN "decode"
    ELSE IF from_bytes(Head(sock).bytes).val.tag = "Quote" THEN "print"
    ELSE "ignore"

RecvErrors == {"recv", "unreachable", "spawn", "decode"}

\* One loop body of the receive worker and, when it leaves the loop, the
\* Stop it sends to the PING worker.
ReceiveWork ==
    /\ rPc = "run"
    /\ \E t0 \in {LoopSleep(rTimer)}, spawnOk \in BOOLEAN :
       LET cmdDue == IsExpiredEvent(t0, WAIT_CMD_EVENT)
           t1 == IF cmdDue THEN ResetEvent(t0, WAIT_CMD_EVENT) ELSE t0
           stop == cmdDue /\ is_stop_cmd(rChan, rConnected)
           quotesDue == ~stop /\ IsExpiredEvent(t1, WAIT_QUOTES_EVENT)
           t2 == IF quotesDue THEN ResetEvent(t1, WAIT_QUOTES_EVENT) ELSE t1
           res == IF quotesDue
                  THEN recv_quotes(quoteIn, ping_control, pPc = "done", spawnOk)
                  ELSE "empty"
           spawned == quotesDue /\ ~ping_control /\ res \in {"decode", "print", "ignore"}
           leave == stop \/ res \in RecvErrors
           control == ping_control \/ spawned
           \* control.tx.send(Stop) fails when the PING thread has dropped rx
           sendOk == spawned \/ pPc = "run"
       IN /\ spawnOk \/ (quotesDue /\ quoteIn # <<>> /\ Head(quoteIn).kind = "data"
                         /\ ~ping_control)
          /\ rTimer' = t2
          /\ rChan' = IF cmdDue THEN Receive(rChan) ELSE rChan
          /\ quoteIn' = IF quotesDue THEN Receive(quoteIn) ELSE quoteIn
          /\ printed' = IF res = "print" THEN printed + 1 ELSE printed
          /\ ping_control' = control
          /\ server_addr' = IF spawned THEN Head(quoteIn).from ELSE server_addr
          /\ pPc' = IF spawned THEN "run" ELSE pPc
          /\ pTimer' = IF spawned THEN PingTimer ELSE pTimer
          /\ pState' = IF spawned THEN "WaitPing" ELSE pState
          /\ rExit' = IF stop THEN "stop" ELSE IF leave THEN res ELSE rExit
          /\ rPc' = IF ~leave THEN "run"
                    ELSE IF control /\ sendOk THEN "join_ping"
                    ELSE "done"
          /\ rResult' = IF ~leave THEN rResult
                        ELSE IF ~control THEN "ok"
                        ELSE IF ~sendOk THEN "send_error"
                        ELSE rResult
          /\ pChan' = IF leave /\ control /\ sendOk THEN Append(pChan, StopCmd) ELSE pChan
          /\ pConnected' = IF spawned THEN TRUE
                           ELSE IF leave /\ control /\ ~sendOk THEN FALSE
                           ELSE pConnected
    /\ UNCHANGED <<rConnected, pResult, pExit, pinged, arrived, pongIn>>

ReceiveStep == ReceiveWork /\ UNCHANGED <<serverVars, unitVars>>

\* control.thread_handle.join(): the receive worker returns the PING worker's
\* result.
ReceiveJoin ==
    /\ rPc = "join_ping"
    /\ pPc = "done"
    /\ rPc' = "done"
    /\ rResult' = pResult
    /\ pConnected' = FALSE
    /\ UNCHANGED <<rTimer, rChan, rConnected, ping_control, rExit, pPc, pTimer, pState, pChan,
                   pResult, pExit, pinged, server_addr, arrived, quoteIn, pongIn, printed>>
    /\ UNCHANGED <<serverVars, unitVars>>

\* One loop body of the PING worker.  pingOk tells whether send_to succeeds.
PingWork ==
    /\ pPc = "run"
    /\ \E t0 \in {LoopSleep(pTimer)}, pingOk \in BOOLEAN :
       LET cmdDue == IsExpiredEvent(t0, WAIT_CMD_EVENT)
           t1 == IF cmdDue THEN ResetEvent(t0, WAIT_CMD_EVENT) ELSE t0
           stop == cmdDue /\ is_stop_cmd(pChan, pConnected)
           pingDue == ~stop /\ pState = "WaitPing" /\ IsExpiredEvent(t1, WAIT_PING_EVENT)
           pongDue == ~stop /\ pState = "WaitPong" /\ IsExpiredEvent(t1, WAIT_PONG_EVENT)
           pong == pongDue /\ is_pong_received(pongIn, server_addr)
       IN /\ pingOk \/ pingDue
          /\ pChan' = IF cmdDue THEN Receive(pChan) ELSE pChan
          /\ pongIn' = IF pongDue THEN Receive(pongIn) ELSE pongIn
          /\ pTimer' =
               IF pingDue /\ pingOk
               THEN AddEvent(RemoveEvent(t1, WAIT_PING_EVENT), WAIT_PONG_EVENT, WAIT_PONG_MILLIS)
               ELSE IF pong
               THEN AddEvent(RemoveEvent(t1, WAIT_PONG_EVENT), WAIT_PING_EVENT, PING_PERIOD_MILLIS)
               ELSE t1
          /\ pState' = IF pingDue /\ pingOk THEN "WaitPong"
                       ELSE IF pong THEN "WaitPing"
                       ELSE pState
          /\ pPc' = IF stop \/ (pingDue /\ ~pingOk) \/ (pongDue /\ ~pong) THEN "done" ELSE "run"
          /\ pExit' = IF stop THEN "stop"
                      ELSE IF pingDue /\ ~pingOk THEN "ping"
                      ELSE IF pongDue /\ ~pong THEN "no_pong"
                      ELSE pExit
          /\ pinged' = IF pingDue /\ pingOk THEN Append(pinged, server_addr) ELSE pinged
          /\ pResult' = IF stop \/ (pongDue /\ ~pong) THEN "ok"
                        ELSE IF pingDue /\ ~pingOk THEN "err"
                        ELSE pResult
    /\ UNCHANGED <<rPc, rTimer, rChan, rConnected, ping_control, rResult, rExit, pConnected,
                   server_addr, arrived, quoteIn, printed>>

PingStep == PingWork /\ UNCHANGED <<serverVars, unitVars>>

\* The network hands a datagram to the client's receive socket.
QuoteArrives(d) ==
    /\ quoteIn = <<>>
    /\ quoteIn' = <<d>>
    /\ arrived' = [arrived EXCEPT !.q = @ + 1]
    /\ UNCHANGED <<rPc, rTimer, rChan, rConnected, ping_control, rResult, rExit, pPc, pTimer,
                   pState, pChan, pConnected, pResult, pExit, pinged, server_addr, pongIn, printed>>
    /\ UNCHANGED <<serverVars, unitVars>>

\* The network hands a datagram to the PING worker's socket.
PongArrives(d) ==
    /\ pongIn' = Append(pongIn, d)
    /\ arrived' = [arrived EXCEPT !.p = @ + 1]
    /\ UNCHANGED <<rPc, rTimer, rChan, rConnected, ping_control, rResult, rExit, pPc, pTimer,
                   pState, pChan, pConnected, pResult, pExit, pinged, server_addr, quoteIn, printed>>
    /\ UNCHANGED <<serverVars, unitVars>>

\* bin/client.rs: the operator types exit, main sends Stop.
ClientMainStop ==
    /\ rPc = "run"
    /\ rConnected
    /\ rChan = <<>>
    /\ rChan' = Append(rChan, StopCmd)
    /\ UNCHANGED <<rPc, rTimer, rConnected, ping_control, rResult, rExit, pPc, pTimer, pState,
                   pChan, pConnected, pResult, pExit, pinged, server_addr, arrived, quoteIn, pongIn,
                   printed>>
    /\ UNCHANGED <<serverVars, unitVars>>

\* A caller of start_receive_quotes drops the ClientControl it was given.
ClientControlDropped ==
    /\ rPc = "run"
    /\ rConnected
    /\ rChan = <<>>
    /\ rConnected' = FALSE
    /\ UNCHANGED <<rPc, rTimer, rChan, ping_control, rResult, rExit, pPc, pTimer, pState,
                   pChan, pConnected, pResult, pExit, pinged, server_addr, arrived, quoteIn, pongIn,
                   printed>>
    /\ UNCHANGED <<serverVars, unitVars>>

\* Real time on the client: as on the server, the worker whose loop body is
\* due first runs next; a join whose thread has finished takes no tick.
ClientPending ==
    (IF rPc = "run" THEN {cWake.r} ELSE {})
    \cup (IF pPc = "run" THEN {cWake.p} ELSE {})

ClientUrgent == rPc = "join_ping" /\ pPc = "done"

ClientCanStep(w) == ~ClientUrgent /\ ClientPending # {} /\ w = MinOf(ClientPending)

ClientAfter(d, kind) ==
    cWake' =
      [r |-> IF rPc' # "run" THEN 0
             ELSE IF kind = "r" THEN TicksToDue(rTimer')
             ELSE cWake.r - d,
       p |-> IF pPc' # "run" THEN 0
             ELSE IF kind = "p" \/ pPc # "run" THEN TicksToDue(pTimer')
             ELSE cWake.p - d]

\* The clock counts the ticks from the PING worker's last Ping until the
\* worker has its Pong or ends.
SincePing(d) ==
    clock' =
      IF pPc = "run" /\ pState = "WaitPong"
      THEN (IF pPc' = "run" /\ pState' = "WaitPing" THEN 0 ELSE clock + d)
      ELSE IF pPc' = "done" THEN clock
      ELSE 0

(***************************************************************************)
(* SpecClient: one client from the start of its receive worker.  Up to     *)
(* MaxQuoteDatagrams datagrams reach the receive socket and up to          *)
(* MaxPongDatagrams the PING worker's socket, each just before a poll; the *)
(* operator may type exit at any poll of the receive worker.               *)
(***************************************************************************)
\* The receive worker has slept `phase` times.
ClientStarted(phase) ==
    /\ rPc = "run"
    /\ rTimer = SleepTimes(ReceiveTimer, phase)
    /\ rChan = <<>>
    /\ rConnected = TRUE
    /\ ping_control = FALSE
    /\ rResult = "none"
    /\ rExit = "none"
    /\ pPc = "idle"
    /\ pTimer = EmptyTimer
    /\ pState = "WaitPing"
    /\ pChan = <<>>
    /\ pConnected = FALSE
    /\ pResult = "none"
    /\ pExit = "none"
    /\ pinged = <<>>
    /\ server_addr = "none"
    /\ arrived = [q |-> 0, p |-> 0]
    /\ quoteIn = <<>>
    /\ pongIn = <<>>
    /\ printed = 0
    /\ cWake = [r |-> TicksToDue(rTimer), p |-> 0]
    /\ clock = 0

InitClient == NoServer /\ NoUnits /\ ClientStarted(0)

ClientReceive ==
    /\ ClientCanStep(cWake.r)
    /\ ReceiveStep
    /\ ClientAfter(cWake.r, "r")
    /\ SincePing(cWake.r)

ClientJoin ==
    /\ ReceiveJoin
    /\ cWake' = cWake
    /\ clock' = clock

ClientPing ==
    /\ ClientCanStep(cWake.p)
    /\ PingStep
    /\ ClientAfter(cWake.p, "p")
    /\ SincePing(cWake.p)

BeforeReceivePoll == rPc = "run" /\ ClientCanStep(cWake.r)

\* The poll of the PING worker that reads its socket.
BeforePongPoll ==
    /\ pPc = "run"
    /\ pState = "WaitPong"
    /\ ClientCanStep(cWake.p)
    /\ IsExpiredEvent(LoopSleep(pTimer), WAIT_PONG_EVENT)

ClientQuoteArrives ==
    /\ BeforeReceivePoll
    /\ arrived.q < MaxQuoteDatagrams
    /\ \E d \in QuoteDatagrams : QuoteArrives(d)
    /\ cWake' = cWake
    /\ clock' = clock

ClientPongArrives ==
    /\ BeforePongPoll
    /\ arrived.p < MaxPongDatagrams
    /\ \E d \in PongDatagrams : PongArrives(d)
    /\ cWake' = cWake
    /\ clock' = clock

ClientStops ==
    /\ BeforeReceivePoll
    /\ ClientMainStop \/ ClientControlDropped
    /\ cWake' = cWake
    /\ clock' = clock

NextClient ==
    \/ ClientReceive
    \/ ClientJoin
    \/ ClientPing
    \/ ClientQuoteArrives
    \/ ClientPongArrives
    \/ ClientStops

SpecClient == InitClient /\ [][NextClient]_vars

(***************************************************************************)
(* Properties of the client (SpecClient).                                  *)
(***************************************************************************)
\* The receive worker takes a datagram from its socket after the PING worker
\* it spawned has finished.
ReceivedAfterPingEnded ==
    /\ rPc = "run"
    /\ ping_control
    /\ pPc = "done"
    /\ quoteIn # <<>>
    /\ Head(quoteIn).kind = "data"
    /\ quoteIn' = Tail(quoteIn)

\* C11 as stated: a PING worker that finds no Pong from the server address
\* when its 5 s deadline expires terminates, within 510 ticks of its Ping;
\* the next datagram the receive worker receives after that is not printed
\* and the receive worker exits with the server-unreachable error.
C11_ClientPingTimeout ==
    /\ [](pState = "WaitPong" => clock <= (WAIT_PONG_MILLIS + 100) \div TICK_MILLIS)
    /\ [][pPc = "run" /\ pState = "WaitPong" /\ pTimer' # pTimer /\ ~PongAvailable
          /\ clock' >= WAIT_PONG_MILLIS \div TICK_MILLIS
          => pPc' = "done"]_vars
    /\ [][ReceivedAfterPingEnded
          => /\ rPc' = "done"
             /\ printed' = printed
             /\ rExit' = "unreachable"
             /\ rResult' = "unreachable"]_vars

\* What holds of it: the PING worker ends on time and the receive worker
\* leaves its loop on the unreachable error without printing; the thread
\* then returns the error of the failed send of Stop.
C11_TimeoutSeenSendFails ==
    /\ [](pState = "WaitPong" => clock <= (WAIT_PONG_MILLIS + 100) \div TICK_MILLIS)
    /\ [][pPc = "run" /\ pState = "WaitPong" /\ pTimer' # pTimer /\ ~PongAvailable
          /\ clock' >= WAIT_PONG_MILLIS \div TICK_MILLIS
          => pPc' = "done"]_vars
    /\ [][ReceivedAfterPingEnded
          => /\ rPc' = "done"
             /\ printed' = printed
             /\ rExit' = "unreachable"
             /\ rResult' = "send_error"]_vars

\* The PING worker timed out and the receive worker has met a quote since.
C11_QuoteAfterTimeout ==
    /\ pExit = "no_pong"
    /\ rExit = "unreachable"
    /\ rPc = "done"

(***************************************************************************)
(* SpecGen: the Generator worker on its own.  Any holder of the callback   *)
(* sender submits callbacks, up to MaxCallbacks in all and at any moment;  *)
(* the holder of the control sender sends Stop or drops the sender.        *)
(***************************************************************************)
InitGen ==
    /\ NoClient
    /\ NoUnits
    /\ rootPc = "outside"
    /\ rootTimer = EmptyTimer
    /\ rootChan = <<>>
    /\ rootConnected = FALSE
    /\ rootResult = "none"
    /\ handlers = <<>>
    /\ listener = <<>>
    /\ shutIdx = 0
    /\ genPc = "run"
    /\ genTimer = GeneratorTimer
    /\ genChan = <<>>
    /\ genConnected = TRUE
    /\ cbq = <<>>
    /\ timestamp_counter = 1
    /\ tickerOrder \in Orders(Configured)
    /\ hPc = [i \in Sessions |-> "idle"]
    /\ hTimer = [i \in Sessions |-> EmptyTimer]
    /\ hChan = [i \in Sessions |-> <<>>]
    /\ hConnected = [i \in Sessions |-> FALSE]
    /\ hState = [i \in Sessions |-> WaitPackLen]
    /\ reader = [i \in Sessions |-> <<>>]
    /\ hResult = [i \in Sessions |-> "none"]
    /\ hExit = [i \in Sessions |-> "none"]
    /\ sPc = [i \in Sessions |-> "idle"]
    /\ sTimer = [i \in Sessions |-> EmptyTimer]
    /\ sChan = [i \in Sessions |-> <<>>]
    /\ sConnected = [i \in Sessions |-> FALSE]
    /\ need_quotes = [i \in Sessions |-> <<>>]
    /\ cur_client_port = [i \in Sessions |-> 0]
    /\ wait_ping_counter = [i \in Sessions |-> 0]
    /\ sResult = [i \in Sessions |-> "none"]
    /\ sExit = [i \in Sessions |-> "none"]
    /\ conn = [i \in Sessions |-> "none"]
    /\ wire = [i \in Sessions |-> <<>>]
    /\ rcv = [i \in Sessions |-> <<>>]
    /\ udpIn = [i \in Sessions |-> <<>>]
    /\ written = [i \in Sessions |-> <<>>]
    /\ fwd = [i \in Sessions |-> <<>>]
    /\ quotesSeen = [i \in Sessions |-> FALSE]
    /\ submitted = [i \in Sessions |-> FALSE]
    /\ sockSent = [i \in Sessions |-> {}]
    /\ cliGot = {}
    /\ lastCall = NoCall
    /\ stopPlaced = FALSE
    /\ wake = [NoWake EXCEPT !.gen = TicksToDue(GeneratorTimer)]
    /\ clock = 0

GenRuns ==
    /\ GeneratorStep
    /\ After(wake.gen, "gen", 0)
    /\ clock' = clock

\* tx_callback.send(callback) by a holder of the callback sender.
GenSubmit ==
    /\ genPc = "run"
    /\ (timestamp_counter - 1) + Len(cbq) < MaxCallbacks
    /\ \E i \in Sessions, req \in Requests :
         cbq' = Append(cbq, QuotesSenderNew(i, req.port, req.tickers))
    /\ UNCHANGED <<genPc, genTimer, genChan, genConnected, timestamp_counter, tickerOrder>>
    /\ UNCHANGED <<rootVars, hVars, sVars, netVars, obsVars, timeVars, farVars>>

\* control.tx.send(GeneratorCmd::Stop), or the control is dropped.
GenStop ==
    /\ genPc = "run"
    /\ genConnected
    /\ genChan = <<>>
    /\ \/ genChan' = Append(genChan, StopCmd) /\ genConnected' = genConnected
       \/ genChan' = genChan /\ genConnected' = FALSE
    /\ UNCHANGED <<genPc, genTimer, cbq, timestamp_counter, tickerOrder>>
    /\ UNCHANGED <<rootVars, hVars, sVars, netVars, obsVars, timeVars, farVars>>

NextGen == GenRuns \/ GenSubmit \/ GenStop

SpecGen == InitGen /\ [][NextGen]_vars

(***************************************************************************)
(* Properties of the Generator (SpecGen).                                  *)
(***************************************************************************)
\* The Generator takes the callback at the head of the queue and calls it.
Invokes == genPc = "run" /\ genPc' = "run" /\ cbq # <<>> /\ cbq' = Tail(cbq)

\* C12: every quote of a batch carries the batch's timestamp, which is the
\* counter's value when the batch is generated; the counter goes up by one
\* with each batch and at no other step, so the timestamps of successive
\* batches strictly increase.
C12_TimestampPerBatch ==
    /\ [][Invokes =>
            /\ \A k \in 1..Len(lastCall'.stamps) : lastCall'.stamps[k] = timestamp_counter
            /\ lastCall'.ts = timestamp_counter
            /\ lastCall'.ts > lastCall.ts
            /\ timestamp_counter' = timestamp_counter + 1]_vars
    /\ [][timestamp_counter' # timestamp_counter => Invokes]_vars

\* A second batch of two quotes has been generated.
C12_SecondBatch == Len(lastCall.stamps) = 2 /\ lastCall.ts = 2

\* C13: the Generator serves the queued callbacks in the order of their
\* submission, whichever Streamer submitted them, one per invocation, and
\* every invocation gets a batch of its own: its timestamp is greater than
\* that of every earlier invocation.
C13_FifoFreshBatch ==
    [][lastCall' # lastCall =>
         /\ cbq # <<>>
         /\ cbq' = Tail(cbq)
         /\ lastCall'.sid = Head(cbq).sid
         /\ lastCall'.port = Head(cbq).port
         /\ lastCall'.sub = Head(cbq).sub
         /\ lastCall'.ts > lastCall.ts]_vars

\* Two callbacks have been served while a third, of another Streamer, waits.
C13_ServedWhileQueued ==
    /\ lastCall.ts = 2
    /\ cbq # <<>>
    /\ cbq[1].sid # lastCall.sid

\* C14 as stated: every callback submitted to the Generator's callback
\* channel is invoked exactly once with the next batch: a callback leaves
\* the queue only by being invoked, one callback per batch, and none is
\* discarded, not even those queued when the Generator is stopped.
C14_InvokedExactlyOnce ==
    [][cbq' # cbq /\ Len(cbq') <= Len(cbq) =>
         /\ cbq' = Tail(cbq)
         /\ lastCall'.ts = timestamp_counter
         /\ timestamp_counter' = timestamp_counter + 1
         /\ lastCall'.sid = Head(cbq).sid
         /\ lastCall'.port = Head(cbq).port]_vars

(***************************************************************************)
(* SpecStop: one session until its Handler leaves its loop, which it does  *)
(* within MaxTicks ticks or not at all, and from then until its Streamer   *)
(* has left its own.  The clock counts the ticks of the session and, once  *)
(* the Handler has placed Stop on the Streamer's channel, the ticks from   *)
(* then until the Streamer leaves its loop.                                *)
(***************************************************************************)
SinceStop(i, d) ==
    IF hPc[i] = "run"
    THEN IF hPc'[i] = "join" THEN clock' = 0 ELSE Pass(d, MaxTicks)
    ELSE clock' = IF sPc[i] = "run" THEN clock + d ELSE clock

StopStepStreamer == TimedStreamer(1) /\ SinceStop(1, wake.s[1])

StopStepGenerator ==
    /\ TimedGenerator
    /\ timestamp_counter' <= MaxBatches + 1
    /\ SinceStop(1, wake.gen)

StopStepHandler == TimedHandler(1) /\ SinceStop(1, wake.h[1])

NextStop ==
    \/ StartStreamer
    \/ StopStepStreamer
    \/ StopStepGenerator
    \/ StopStepHandler
    \/ JoinStreamer
    \/ Write
    \/ ArriveAll
    \/ Close
    \/ Reset
    \/ StopSession

SpecStop == Init /\ [][NextStop]_vars

(***************************************************************************)
(* Properties of the reaction to Stop (SpecStop).                          *)
(***************************************************************************)
\* C15 as stated, for the Streamer: from the moment Stop is placed on its
\* control channel the Streamer leaves its loop within its 300 ms command
\* period and one tick, whatever else is queued on the channel.
C15_StopSeenInTime ==
    hPc[1] = "join" => clock <= (HANDLE_CMD_PERIOD_MILLIS \div TICK_MILLIS) + 1

(***************************************************************************)
(* SpecPoll: every worker in front of its control channel.  Either the     *)
(* server runs with one session (Server Root, Handler, Streamer and        *)
(* Generator) for MaxPollTicks ticks and through its shutdown, or a client *)
(* runs with its receive worker and PING worker.  Each worker's channel    *)
(* starts empty and connected, empty with its sender dropped, or holding   *)
(* Stop; the Streamer's may also hold a Quotes command of a dropped sender.*)
(***************************************************************************)
ChannelStates ==
    {[chan |-> <<>>, connected |-> TRUE],
     [chan |-> <<>>, connected |-> FALSE],
     [chan |-> <<StopCmd>>, connected |-> TRUE]}

StreamerChannelStates ==
    ChannelStates
    \cup {[chan |-> <<QuotesCmd(r)>>, connected |-> FALSE] : r \in Requests}

InitPollServer ==
    /\ NoClient
    /\ NoUnits
    /\ rootPc = "run"
    /\ rootTimer = RootTimer
    /\ \E c \in ChannelStates : rootChan = c.chan /\ rootConnected = c.connected
    /\ rootResult = "none"
    /\ handlers = <<1>>
    /\ listener = <<>>
    /\ shutIdx = 0
    /\ genPc = "run"
    /\ genTimer = GeneratorTimer
    /\ \E c \in ChannelStates : genChan = c.chan /\ genConnected = c.connected
    /\ cbq = <<>>
    /\ timestamp_counter = 1
    /\ tickerOrder = SomeOrder
    /\ hPc = [i \in Sessions |-> IF i = 1 THEN "run" ELSE "idle"]
    /\ hTimer = [i \in Sessions |-> HandlerTimer]
    /\ \E c \in ChannelStates :
         /\ hChan = [i \in Sessions |-> IF i = 1 THEN c.chan ELSE <<>>]
         /\ hConnected = [i \in Sessions |-> i = 1 /\ c.connected]
    /\ hState = [i \in Sessions |-> WaitPackLen]
    /\ reader = [i \in Sessions |-> <<>>]
    /\ hResult = [i \in Sessions |-> "none"]
    /\ hExit = [i \in Sessions |-> "none"]
    /\ sPc = [i \in Sessions |-> IF i = 1 THEN "start" ELSE "idle"]
    /\ sTimer = [i \in Sessions |-> EmptyTimer]
    /\ \E c \in StreamerChannelStates :
         /\ sChan = [i \in Sessions |-> IF i = 1 THEN c.chan ELSE <<>>]
         /\ sConnected = [i \in Sessions |-> i = 1 /\ c.connected]
    /\ need_quotes = [i \in Sessions |-> <<>>]
    /\ cur_client_port = [i \in Sessions |-> 0]
    /\ wait_ping_counter = [i \in Sessions |-> 0]
    /\ sResult = [i \in Sessions |-> "none"]
    /\ sExit = [i \in Sessions |-> "none"]
    /\ conn = [i \in Sessions |-> IF i = 1 THEN "open" ELSE "none"]
    /\ wire = [i \in Sessions |-> <<>>]
    /\ rcv = [i \in Sessions |-> <<>>]
    /\ udpIn = [i \in Sessions |-> <<>>]
    /\ written = [i \in Sessions |-> <<>>]
    /\ fwd = [i \in Sessions |-> <<>>]
    /\ quotesSeen = [i \in Sessions |-> FALSE]
    /\ submitted = [i \in Sessions |-> FALSE]
    /\ sockSent = [i \in Sessions |-> {}]
    /\ cliGot = {}
    /\ lastCall = NoCall
    /\ stopPlaced = FALSE
    /\ clock = 0
    /\ wake = [NoWake EXCEPT !.root = TicksToDue(rootTimer), !.gen = TicksToDue(genTimer),
                             !.h = [i \in Sessions |-> IF i = 1 THEN TicksToDue(hTimer[i]) ELSE 0]]

InitPollClient ==
    /\ NoServer
    /\ NoUnits
    /\ rPc = "run"
    /\ rTimer = ReceiveTimer
    /\ \E c \in ChannelStates : rChan = c.chan /\ rConnected = c.connected
    /\ ping_control = TRUE
    /\ rResult = "none"
    /\ rExit = "none"
    /\ pPc = "run"
    /\ pTimer = PingTimer
    /\ pState = "WaitPing"
    /\ \E c \in ChannelStates : pChan = c.chan /\ pConnected = c.connected
    /\ pResult = "none"
    /\ pExit = "none"
    /\ pinged = <<>>
    /\ server_addr = "server"
    /\ arrived = [q |-> 0, p |-> 0]
    /\ quoteIn = <<>>
    /\ pongIn = <<>>
    /\ printed = 0
    /\ cWake = [r |-> TicksToDue(ReceiveTimer), p |-> TicksToDue(PingTimer)]
    /\ clock = 0

InitPoll == InitPollServer \/ InitPollClient

PollThreads == Threads(MaxPollTicks)

NextPoll == PollThreads \/ ClientReceive \/ ClientJoin \/ ClientPing

SpecPoll == InitPoll /\ [][NextPoll]_vars

(***************************************************************************)
(* Properties of the control channels (SpecPoll).                          *)
(***************************************************************************)
\* The loop body that runs next polls the control channel.
PollsNext(timer) == IsExpiredEvent(LoopSleep(timer), WAIT_CMD_EVENT)

Disconnected(chan, connected) == chan = <<>> /\ ~connected

HoldsStop(chan) == chan # <<>> /\ Head(chan) = StopCmd

Idle(chan, connected) == chan = <<>> /\ connected

RootPolls == rootPc = "run" /\ rootTimer' # rootTimer /\ PollsNext(rootTimer)

HandlerPolls == hPc[1] = "run" /\ hTimer'[1] # hTimer[1] /\ PollsNext(hTimer[1])

StreamerPolls == sPc[1] = "run" /\ sTimer'[1] # sTimer[1] /\ PollsNext(sTimer[1])

ReceivePolls == rPc = "run" /\ rTimer' # rTimer /\ PollsNext(rTimer)

PingPolls == pPc = "run" /\ pTimer' # pTimer /\ PollsNext(pTimer)

\* C16: in every worker a poll of a control channel that is empty and whose
\* sender is dropped ends the loop the way a poll that receives Stop does,
\* and a poll of an empty, connected channel does not end it.  The
\* Generator polls on every pass, 10 ticks apart: with its sender dropped
\* from the start it does not outlast the tick of its first pass, and it
\* leaves for no reason but Stop or a dropped sender.
C16_DisconnectedIsStop ==
    /\ [][RootPolls =>
            /\ Disconnected(rootChan, rootConnected) \/ HoldsStop(rootChan)
                 => rootPc' = "stop_handlers"
            /\ Idle(rootChan, rootConnected) => rootPc' = "run"]_vars
    /\ [][HandlerPolls =>
            /\ Disconnected(hChan[1], hConnected[1]) \/ HoldsStop(hChan[1])
                 => hPc'[1] = "join" /\ hExit'[1] = "stop"
            /\ Idle(hChan[1], hConnected[1]) => hExit'[1] # "stop"]_vars
    /\ [][StreamerPolls =>
            /\ Disconnected(sChan[1], sConnected[1]) \/ HoldsStop(sChan[1])
                 => sPc'[1] = "done" /\ sExit'[1] = "stop"
            /\ Idle(sChan[1], sConnected[1]) => sExit'[1] # "stop"]_vars
    /\ [][ReceivePolls =>
            /\ Disconnected(rChan, rConnected) \/ HoldsStop(rChan)
                 => rPc' # "run" /\ rExit' = "stop"
            /\ Idle(rChan, rConnected) => rExit' # "stop"]_vars
    /\ [][PingPolls =>
            /\ Disconnected(pChan, pConnected) \/ HoldsStop(pChan)
                 => pPc' = "done" /\ pExit' = "stop"
            /\ Idle(pChan, pConnected) => pExit' # "stop"]_vars
    /\ [][genPc = "run" /\ genPc' # "run" =>
            Disconnected(genChan, genConnected) \/ HoldsStop(genChan)]_vars
    /\ [](genPc = "run" /\ rootPc = "run"
            /\ (Disconnected(genChan, genConnected) \/ HoldsStop(genChan))
          => clock <= GEN_HANDLE_CMD_PERIOD_MILLIS \div TICK_MILLIS)

\* A receive worker has left its loop on finding its sender dropped, and a
\* PING worker too.
C16_LeftOnDisconnect ==
    /\ rExit = "stop" /\ ~rConnected
    /\ pExit = "stop" /\ pChan = <<>> /\ pPc = "done"

(***************************************************************************)
(* Properties of the subscription (SpecStream).                            *)
(***************************************************************************)
\* The requests of the Quotes commands waiting on Streamer i's channel.
RECURSIVE PendingQuotes(_)
PendingQuotes(chan) ==
    IF chan = <<>> THEN <<>>
    ELSE IF Head(chan).tag = "Quotes" THEN <<Head(chan).req>> \o PendingQuotes(Tail(chan))
    ELSE PendingQuotes(Tail(chan))

\* The callback a step appends to the Generator's queue.
Submitted(cb) == cbq' = Append(cbq, cb)

\* C17: the Streamer takes the Quotes commands in the order its Handler
\* forwarded them, and its subscription is exactly the port and tickers of
\* the last command it took (nothing before any command): the requests still
\* queued are the last ones forwarded, and the one before them is the
\* subscription.  A callback submitted at a stream event carries the
\* subscription as the command poll of the same pass has left it.
C17_SubscriptionReplaced ==
    /\ [](\A i \in Sessions : sPc[i] = "run" =>
            LET pend == PendingQuotes(sChan[i])
                n == Len(fwd[i]) - Len(pend)
            IN /\ n >= 0
               /\ pend = SubSeq(fwd[i], n + 1, Len(fwd[i]))
               /\ IF n = 0
                  THEN need_quotes[i] = <<>> /\ cur_client_port[i] = 0
                  ELSE /\ need_quotes[i] = fwd[i][n].tickers
                       /\ cur_client_port[i] = fwd[i][n].port)
    /\ [][\A i \in Sessions :
            cbq' # cbq /\ sTimer'[i] # sTimer[i] =>
              Submitted([sid |-> i, port |-> cur_client_port'[i],
                         need_quotes |-> Range(need_quotes'[i]), sub |-> need_quotes'[i]])]_vars

\* A second, different request has replaced the first and a callback with
\* the second subscription has been served.
C17_SecondSubscriptionServed ==
    /\ Len(fwd[1]) = 2
    /\ fwd[1][1] # fwd[1][2]
    /\ sPc[1] = "run"
    /\ sChan[1] = <<>>
    /\ lastCall.sub = fwd[1][2].tickers
    /\ lastCall.port = fwd[1][2].port

(***************************************************************************)
(* SpecTimer: a Timer on its own.  Events A and B are added with bounds of *)
(* TimerBounds, reset and removed in any order, between sleeps; an event   *)
(* is followed for MaxSleeps sleeps after its last add or reset.           *)
(***************************************************************************)
TimerEvents == {"A", "B"}

TimerBounds == {0, 5, 10, 15, 20, 30}

InitTimer ==
    /\ NoServer
    /\ NoClient
    /\ clock = 0
    /\ unitTimer = EmptyTimer
    /\ sinceReset = <<>>
    /\ unitReader = <<>>
    /\ fed = <<>>
    /\ taken = <<>>
    /\ lastChunk = [n |-> 0, some |-> FALSE, chunk |-> <<>>]
    /\ unitTicker = NoTicker
    /\ unitVolume = NoVolume

TimerFrame ==
    UNCHANGED <<serverVars, clientVars, clock, unitReader, fed, taken, lastChunk,
                unitTicker, unitVolume>>

\* timer.add_event(name, bound_millis)
UnitAddEvent ==
    /\ \E name \in TimerEvents, b \in TimerBounds :
         /\ unitTimer' = AddEvent(unitTimer, name, b)
         /\ sinceReset' = [n \in DOMAIN unitTimer' |-> IF n = name THEN 0 ELSE sinceReset[n]]
    /\ TimerFrame

\* timer.reset_event(name) of a registered event
UnitResetEvent ==
    /\ \E name \in DOMAIN unitTimer :
         /\ unitTimer' = ResetEvent(unitTimer, name)
         /\ sinceReset' = [sinceReset EXCEPT ![name] = 0]
    /\ TimerFrame

\* timer.remove_event(name) of a registered event
UnitRemoveEvent ==
    /\ \E name \in DOMAIN unitTimer :
         /\ unitTimer' = RemoveEvent(unitTimer, name)
         /\ sinceReset' = [n \in DOMAIN unitTimer' |-> sinceReset[n]]
    /\ TimerFrame

\* timer.sleep()
UnitSleep ==
    /\ unitTimer # EmptyTimer
    /\ \A n \in DOMAIN unitTimer : sinceReset[n] < MaxSleeps
    /\ unitTimer' = TimerSleep(unitTimer)
    /\ sinceReset' = [n \in DOMAIN unitTimer |-> sinceReset[n] + 1]
    /\ TimerFrame

NextTimer == UnitAddEvent \/ UnitResetEvent \/ UnitRemoveEvent \/ UnitSleep

SpecTimer == InitTimer /\ [][NextTimer]_vars

(***************************************************************************)
(* Properties of the Timer (SpecTimer).                                    *)
(***************************************************************************)
CeilTicks(bound_millis) == (bound_millis + TICK_MILLIS - 1) \div TICK_MILLIS

\* C18 as stated: after any add_event, reset_event and sleep calls an event
\* is expired if and only if at least ceil(bound_ms / TICK_MS) sleeps have
\* happened since its last add_event or reset_event.
C18_ExpiredIffCeilTicks ==
    \A n \in DOMAIN unitTimer :
        IsExpiredEvent(unitTimer, n) <=> sinceReset[n] >= CeilTicks(unitTimer[n].bound)

\* What the timer does: it counts to the bound divided by the tick, rounded
\* down.
C18_ExpiredIffFloorTicks ==
    \A n \in DOMAIN unitTimer :
        IsExpiredEvent(unitTimer, n) <=> sinceReset[n] >= unitTimer[n].bound \div TICK_MILLIS


(***************************************************************************)
(* SpecReader: a StreamReader on its own.  Streams of one to MaxFed bytes  *)
(* are read and chunks of zero to MaxChunkLen bytes are asked for, in any  *)
(* order, until MaxFed bytes have been read in all.                        *)
(***************************************************************************)
UnitBytes == {1, 2}

UnitStreams == UNION {[1..k -> UnitBytes] : k \in 1..MaxFed}

InitReader ==
    /\ NoServer
    /\ NoClient
    /\ NoUnits
    /\ clock = 0

ReaderFrame ==
    UNCHANGED <<serverVars, clientVars, clock, unitTimer, sinceReset, unitTicker, unitVolume>>

\* reader.read_from_stream(&mut stream) on a stream that holds some bytes
UnitReadFrom ==
    /\ \E stream \in UnitStreams :
         LET rd == read_from_stream(unitReader, stream, "open")
             got == Take(stream, Len(stream) - Len(rd.sockbuf))
         IN /\ Len(fed) + Len(got) <= MaxFed
            /\ rd.ok
            /\ unitReader' = rd.buf
            /\ fed' = fed \o got
    /\ UNCHANGED <<taken, lastChunk>>
    /\ ReaderFrame

\* reader.extract_chunk(chunk_len)
UnitExtractChunk ==
    /\ \E chunk_len \in 0..MaxChunkLen :
         LET ex == extract_chunk(unitReader, chunk_len)
         IN /\ unitReader' = ex.buf
            /\ taken' = taken \o ex.chunk
            /\ lastChunk' = [n |-> chunk_len, some |-> ex.some, chunk |-> ex.chunk]
    /\ UNCHANGED fed
    /\ ReaderFrame

NextReader == UnitReadFrom \/ UnitExtractChunk

SpecReader == InitReader /\ [][NextReader]_vars

(***************************************************************************)
(* Properties of the StreamReader (SpecReader).                            *)
(***************************************************************************)
\* A step of extract_chunk: nothing is read, and the call shows.
Extracts ==
    /\ fed' = fed
    /\ <<unitReader, taken, lastChunk>>' # <<unitReader, taken, lastChunk>>

\* C19: extract_chunk(n) with at least n bytes buffered returns the n oldest
\* bytes read and not yet extracted, in the order they were read, and removes
\* exactly these from the buffer; with fewer than n bytes buffered it returns
\* not-ready and leaves the buffer as it was.
C19_FifoAllOrNothing ==
    [][Extracts =>
        LET n == lastChunk'.n
        IN IF Len(unitReader) >= n
           THEN /\ lastChunk'.some
                /\ lastChunk'.chunk = SubSeq(fed, Len(taken) + 1, Len(taken) + n)
                /\ taken' = taken \o lastChunk'.chunk
                /\ unitReader' = SubSeq(fed, Len(taken') + 1, Len(fed))
           ELSE /\ ~lastChunk'.some
                /\ lastChunk'.chunk = <<>>
                /\ taken' = taken
                /\ unitReader' = unitReader]_vars

\* A chunk was refused while bytes that are left of an earlier extraction
\* and of a later read are buffered.
C19_RefusedWithPartialData ==
    /\ ~lastChunk.some
    /\ lastChunk.n > Len(unitReader)
    /\ Len(unitReader) >= 2
    /\ taken # <<>>
    /\ fed = taken \o unitReader


(***************************************************************************)
(* SpecVolume: the volume of a generated quote.  A generator is built from *)
(* a config with one ticker whose volume bounds are any JSON integers, and *)
(* a quote is generated for any draw.  The u32 of the source is modelled   *)
(* VolumeBits wide; a JSON integer may be negative or wider than that.     *)
(* Arithmetic overflow panics in a build with overflow checks and wraps in *)
(* a build without; a remainder by zero panics in both.                    *)
(***************************************************************************)
VolumeModulus == 2 ^ VolumeBits

U32 == 0 .. (VolumeModulus - 1)

JsonVolumes == -1 .. (VolumeModulus + 1)

\* Value::as_u64()? as u32: None for a number that is no u64, else the low bits.
as_u32(json) == IF json < 0 THEN [some |-> FALSE, val |-> 0]
                ELSE [some |-> TRUE, val |-> json % VolumeModulus]

\* Ticker::from_json, the volume fields.
from_json(json) ==
    LET upper == as_u32(json.upper_bound_volume)
        lower == as_u32(json.lower_bound_volume)
    IN IF upper.some /\ lower.some
       THEN [ok |-> TRUE, upper_bound_volume |-> upper.val, lower_bound_volume |-> lower.val]
       ELSE NoTicker

\* QuoteGenerator::new for a config of one ticker: it fails when from_json
\* gives None and keeps the ticker otherwise.
QuoteGeneratorNew(json) == from_json(json)

\* Ticker::volume_range for any two bounds: upper_bound_volume -
\* lower_bound_volume in u32.
volume_range_u32(ticker, overflow_checks) ==
    IF ticker.upper_bound_volume >= ticker.lower_bound_volume
    THEN [panic |-> FALSE, val |-> ticker.upper_bound_volume - ticker.lower_bound_volume]
    ELSE IF overflow_checks
    THEN [panic |-> TRUE, val |-> 0]
    ELSE [panic |-> FALSE,
          val |-> (ticker.upper_bound_volume + VolumeModulus - ticker.lower_bound_volume)
                      % VolumeModulus]

\* generate_quotes: val_volume % ticker.volume_range() + ticker.lower_bound_volume.
quote_volume(ticker, val_volume, overflow_checks) ==
    LET range == volume_range_u32(ticker, overflow_checks)
    IN IF range.panic \/ range.val = 0
       THEN [outcome |-> "panic", volume |-> 0]
       ELSE LET sum == (val_volume % range.val) + ticker.lower_bound_volume
            IN IF sum < VolumeModulus
               THEN [outcome |-> "quote", volume |-> sum]
               ELSE IF overflow_checks
               THEN [outcome |-> "panic", volume |-> 0]
               ELSE [outcome |-> "quote", volume |-> sum % VolumeModulus]

InitVolume ==
    /\ NoServer
    /\ NoClient
    /\ clock = 0
    /\ unitTimer = EmptyTimer
    /\ sinceReset = <<>>
    /\ unitReader = <<>>
    /\ fed = <<>>
    /\ taken = <<>>
    /\ lastChunk = [n |-> 0, some |-> FALSE, chunk |-> <<>>]
    /\ \E upper \in JsonVolumes, lower \in JsonVolumes :
         unitTicker = QuoteGeneratorNew([upper_bound_volume |-> upper,
                                         lower_bound_volume |-> lower])
    /\ unitVolume = NoVolume

\* One quote of generate_quotes for the ticker of a constructed generator.
UnitGenerateQuote ==
    /\ unitTicker.ok
    /\ \E val_volume \in U32, overflow_checks \in BOOLEAN :
         unitVolume' = quote_volume(unitTicker, val_volume, overflow_checks)
    /\ UNCHANGED <<serverVars, clientVars, clock, unitTimer, sinceReset, unitReader, fed,
                   taken, lastChunk, unitTicker>>

NextVolume == UnitGenerateQuote

SpecVolume == InitVolume /\ [][NextVolume]_vars

(***************************************************************************)
(* Properties of the volume computation (SpecVolume).                      *)
(***************************************************************************)
\* C20 as stated: every quote generated for a ticker of a successfully
\* constructed generator has a volume from the ticker's lower bound up to,
\* but not including, its upper bound, and the computation of the volume
\* never divides by zero, underflows or overflows.
C20_VolumeInRange ==
    unitVolume # NoVolume =>
        /\ unitVolume.outcome = "quote"
        /\ unitTicker.lower_bound_volume <= unitVolume.volume
        /\ unitVolume.volume < unitTicker.upper_bound_volume

\* What holds: for a ticker whose lower bound is below its upper bound the
\* volume is computed without a panic and lies in the range.
C20_VolumeInRangeOfOrderedBounds ==
    (unitVolume # NoVolume /\ unitTicker.lower_bound_volume < unitTicker.upper_bound_volume) =>
        /\ unitVolume.outcome = "quote"
        /\ unitTicker.lower_bound_volume <= unitVolume.volume
        /\ unitVolume.volume < unitTicker.upper_bound_volume


\* C21 as stated: no generator is constructed that holds a ticker whose
\* lower_bound_volume is equal to or above its upper_bound_volume; the
\* construction fails for such a config.
C21_BoundsValidated ==
    unitTicker.ok => unitTicker.lower_bound_volume < unitTicker.upper_bound_volume


(***************************************************************************)
(* Properties of the Handler's check_tcp_cmd arm (Spec).                   *)
(***************************************************************************)
\* The step is a pass of Handler i's loop in which check_tcp_cmd is due.
TcpPoll(i) ==
    /\ hPc[i] = "run"
    /\ hTimer'[i] # hTimer[i]
    /\ HandlerBody(i, LoopSleep(hTimer[i])).tcpDue

\* What the check_tcp_cmd arm of Handler i finds in this pass.
TcpArm(i) == HandlerBody(i, LoopSleep(hTimer[i])).arm

\* C22 as stated: a check_tcp_cmd poll in state WaitPack(len) that finds
\* fewer than len bytes buffered leaves the Handler running in WaitPack(len)
\* with every buffered byte kept.
C22_StaysInWaitPack ==
    [][\A i \in Sessions :
          (/\ TcpPoll(i)
           /\ hState[i].tag = "WaitPack"
           /\ TcpArm(i).rd.ok
           /\ Len(TcpArm(i).rd.buf) < hState[i].len)
          => /\ hPc'[i] = "run"
             /\ hState'[i] = hState[i]
             /\ reader'[i] = TcpArm(i).rd.buf]_vars


\* The message of the complete frame that the poll of Handler i decodes.
FrameMsg(i) == from_bytes(Take(TcpArm(i).rd.buf, hState[i].len))

\* The check_tcp_cmd poll of Handler i finds a complete frame in WaitPack.
CompleteFrame(i) ==
    /\ TcpPoll(i)
    /\ hState[i].tag = "WaitPack"
    /\ TcpArm(i).rd.ok
    /\ Len(TcpArm(i).rd.buf) >= hState[i].len
    /\ FrameMsg(i).ok

\* A Tickers frame forwards exactly one Quotes command and returns to
\* WaitPackLen.
TickersForwarded ==
    \A i \in Sessions :
        CompleteFrame(i) /\ FrameMsg(i).val.tag = "Tickers" =>
            /\ fwd'[i] = Append(fwd[i], [port |-> FrameMsg(i).val.port,
                                         tickers |-> FrameMsg(i).val.tickers])
            /\ hState'[i] = WaitPackLen
            /\ hPc'[i] = "run"

\* A frame of any other message forwards nothing and ends the loop.
OthersRefused ==
    \A i \in Sessions :
        CompleteFrame(i) /\ FrameMsg(i).val.tag # "Tickers" =>
            /\ fwd'[i] = fwd[i]
            /\ hPc'[i] # "run"
            /\ hExit'[i] = "wrong_message"

\* A Handler that finishes after a frame of another message returns an error.
RefusalIsError ==
    \A i \in Sessions :
        hPc[i] # "done" /\ hPc'[i] = "done" /\ hExit'[i] = "wrong_message" =>
            hResult'[i] = "err"

\* C23 as stated: in WaitPack(len) with a complete frame, a Tickers message
\* forwards exactly one Quotes command to the Streamer and the state returns
\* to WaitPackLen; any other message forwards nothing and the Handler
\* terminates with an error outcome.
C23_FrameHandled == [][TickersForwarded /\ OthersRefused /\ RefusalIsError]_vars


\* C24 as stated: on every path by which the Handler exits it has sent Stop
\* to its Streamer and joined it, so a finished Handler never has a Streamer
\* that is still running.
C24_StreamerJoinedFirst ==
    \A i \in Sessions : hPc[i] = "done" => sPc[i] = "done"

\* What holds: the Handler joins its Streamer on every exit but the one for
\* a frame that does not decode.
C24_JoinedUnlessDecodeError ==
    \A i \in Sessions : hPc[i] = "done" /\ hExit[i] # "decode_error" => sPc[i] = "done"


(***************************************************************************)
(* SpecPingCheck: one session whose client sends no request.  Datagrams    *)
(* and socket errors reach the Streamer's socket at any time, up to        *)
(* MaxDatagrams of them waiting to be read; the run is followed until the  *)
(* Streamer exits, and after.                                              *)
(***************************************************************************)
CheckStepStreamer ==
    \E i \in Sessions : TimedStreamer(i) /\ Saturate(wake.s[i], MaxPingTick)

CheckStepGenerator == TimedGenerator /\ Saturate(wake.gen, MaxPingTick)

CheckStepHandler ==
    \E i \in Sessions : TimedHandler(i) /\ Saturate(wake.h[i], MaxPingTick)

DatagramAnyTime ==
    \E i \in Sessions, d \in Datagrams :
        /\ BeforeStreamerPoll(i)
        /\ SendDatagram(i, d)
        /\ UNCHANGED <<timeVars, farVars>>

NextPingCheck ==
    \/ StartStreamer
    \/ CheckStepStreamer
    \/ CheckStepGenerator
    \/ CheckStepHandler
    \/ DatagramAnyTime

SpecPingCheck == Init /\ [][NextPingCheck]_vars

(***************************************************************************)
(* Properties of the Streamer's check_ping arm (SpecPingCheck).            *)
(***************************************************************************)
\* The step is a pass of Streamer i's loop in which check_ping is due.
PingPoll(i) ==
    /\ sPc[i] = "run"
    /\ sTimer'[i] # sTimer[i]
    /\ StreamerBody(i, LoopSleep(sTimer[i]), FALSE).pingDue

\* What the recv_from of this poll returns.
NothingToRead(i) == udpIn[i] = <<>> \/ Head(udpIn[i]).kind = "reset"

ReadFails(i) == udpIn[i] # <<>> /\ Head(udpIn[i]).kind = "io"

DatagramRead(i) == udpIn[i] # <<>> /\ Head(udpIn[i]).kind = "data"

PingRead(i) ==
    /\ DatagramRead(i)
    /\ from_bytes(Head(udpIn[i]).bytes).ok
    /\ from_bytes(Head(udpIn[i]).bytes).val.tag = "Ping"

EmptyDatagramRead(i) == DatagramRead(i) /\ Head(udpIn[i]).bytes = <<>>

\* The Streamer exits for PING timeout exactly in the poll in which its
\* counter reaches the limit.
TimeoutAtLimit(i) ==
    /\ sExit'[i] = "ping_timeout" <=> (sPc'[i] = "done" /\ wait_ping_counter'[i] = PingLimit)
    /\ wait_ping_counter'[i] <= PingLimit

OtherMessageRead(i) == DatagramRead(i) /\ ~PingRead(i) /\ ~EmptyDatagramRead(i)

\* A poll takes at most one datagram from the socket of a running Streamer.
OneDatagramPerPoll(i) ==
    sPc'[i] = "run" => udpIn'[i] = IF udpIn[i] = <<>> THEN <<>> ELSE Tail(udpIn[i])

\* A received Ping is answered with a Pong to the address it came from and
\* the Streamer keeps running, unless the send of the Pong fails.
PingAnswered(i) ==
    PingRead(i) =>
        \/ /\ sPc'[i] = "run"
           /\ "Pong" \in sockSent'[i]
           /\ check_ping(udpIn[i], FALSE).pong = Head(udpIn[i]).from
        \/ sExit'[i] = "ping_error" /\ sockSent'[i] = sockSent[i]

\* A received message that is not a Ping is not answered and ends the
\* Streamer with an error.
OtherMessageIsError(i) ==
    OtherMessageRead(i) =>
        /\ sockSent'[i] = sockSent[i]
        /\ sPc'[i] = "done"
        /\ sExit'[i] = "ping_error"
        /\ sResult'[i] = "err"

\* A read that finds nothing sends nothing and is no error.
NothingReadIsNoError(i) ==
    NothingToRead(i) => sockSent'[i] = sockSent[i] /\ sExit'[i] # "ping_error"

\* C26 as stated: a check_ping poll receives at most one datagram; a
\* received Ping causes one Pong to the sender of that Ping and the Streamer
\* keeps running; a received message that is not a Ping causes no Pong and
\* terminates the Streamer with an error outcome; a would-block or
\* port-unreachable read sends nothing and is not an error.
C26_PingPollOutcomes ==
    [][\A i \in Sessions : PingPoll(i) =>
          /\ OneDatagramPerPoll(i)
          /\ PingAnswered(i)
          /\ OtherMessageIsError(i)
          /\ NothingReadIsNoError(i)]_vars

\* What holds: as C26, but the Streamer that ends on a message that is not
\* a Ping returns Ok.
C26_OtherMessageEndsOk ==
    [][\A i \in Sessions : PingPoll(i) =>
          /\ OneDatagramPerPoll(i)
          /\ PingAnswered(i)
          /\ OtherMessageRead(i) =>
                /\ sockSent'[i] = sockSent[i]
                /\ sExit'[i] = "ping_error"
                /\ sResult'[i] = "ok"
          /\ NothingReadIsNoError(i)]_vars


(***************************************************************************)
(* SpecSend: the Generator and the callbacks it is given.  Callbacks for   *)
(* the subscriptions of Subscriptions are submitted at any time, up to     *)
(* MaxCallbacks of them; any send of an invocation may fail.               *)
(***************************************************************************)
Subscriptions == {<<AMD>>, <<AMD, INT>>, <<INT, XYZ, AMD>>}

SendSubmit ==
    /\ genPc = "run"
    /\ (timestamp_counter - 1) + Len(cbq) < MaxCallbacks
    /\ \E i \in Sessions, need \in Subscriptions :
         cbq' = Append(cbq, QuotesSenderNew(i, 8000, need))
    /\ UNCHANGED <<genPc, genTimer, genChan, genConnected, timestamp_counter, tickerOrder>>
    /\ UNCHANGED <<rootVars, hVars, sVars, netVars, obsVars, timeVars, farVars>>

NextSend == GenRuns \/ SendSubmit

SpecSend == InitGen /\ [][NextSend]_vars

(***************************************************************************)
(* Properties of a callback invocation (SpecSend).                         *)
(***************************************************************************)
\* The tickers of the batch that the invoked callback is subscribed to, in
\* the order of the batch.
Wanted == SelectSeq(lastCall.tickers, LAMBDA t : t \in Range(lastCall.sub))

SentInOrder == [k \in 1..Len(lastCall.sent) |-> lastCall.sent[k].ticker]

Without(s, k) == [j \in 1..(Len(s) - 1) |-> IF j < k THEN s[j] ELSE s[j + 1]]

\* The invoked callback met a failure at one of its sends.
SendFailed == Invoked /\ lastCall.failAt \in 1..Len(Wanted)

\* C27 as stated: when the send for one subscribed quote fails, every other
\* subscribed quote of the batch is still sent, and the callback returns the
\* failure.
C27_FailureSkipsOneQuote ==
    SendFailed =>
        /\ SentInOrder = Without(Wanted, lastCall.failAt)
        /\ ~lastCall.ok

\* What holds: the first failure ends the invocation; the subscribed quotes
\* before it were sent, those after it are not, and the callback returns the
\* failure.
C27_FailureEndsBatch ==
    SendFailed =>
        /\ SentInOrder = Take(Wanted, lastCall.failAt - 1)
        /\ ~lastCall.ok


(***************************************************************************)
(* Properties of the client's PING worker (SpecClient).                    *)
(***************************************************************************)
\* The step is a pass of the PING worker's loop that does not end on Stop.
PingPass == pPc = "run" /\ pTimer' # pTimer /\ pExit' # "stop"

\* The event is expired when the pass looks at it.
DueInPass(name) == IsExpiredEvent(LoopSleep(pTimer), name)

\* The first datagram in the PING worker's socket is a Pong from the server.
PongFromServer ==
    /\ pongIn # <<>>
    /\ Head(pongIn).kind = "data"
    /\ Head(pongIn).bytes = to_stdvec(PongMsg)
    /\ Head(pongIn).from = server_addr

\* The timer holds only the command event and a new event `name` of `millis`.
FreshEvent(name, millis) ==
    /\ DOMAIN pTimer' = {WAIT_CMD_EVENT, name}
    /\ pTimer'[name] = NewEvent(millis)

InWaitPing ==
    IF DueInPass(WAIT_PING_EVENT)
    THEN \/ /\ pinged' = Append(pinged, server_addr)
            /\ pState' = "WaitPong"
            /\ FreshEvent(WAIT_PONG_EVENT, WAIT_PONG_MILLIS)
            /\ pPc' = "run"
         \/ /\ pinged' = pinged
            /\ pPc' = "done"
            /\ pExit' = "ping"
    ELSE pinged' = pinged /\ pState' = "WaitPing" /\ pPc' = "run"

InWaitPong ==
    /\ pinged' = pinged
    /\ IF ~DueInPass(WAIT_PONG_EVENT)
       THEN pongIn' = pongIn /\ pState' = "WaitPong" /\ pPc' = "run"
       ELSE /\ pongIn' = (IF pongIn = <<>> THEN <<>> ELSE Tail(pongIn))
            /\ IF PongFromServer
               THEN /\ pState' = "WaitPing"
                    /\ FreshEvent(WAIT_PING_EVENT, PING_PERIOD_MILLIS)
                    /\ pPc' = "run"
               ELSE pPc' = "done" /\ pExit' = "no_pong"

\* C28: in WaitPing the PING worker sends one Ping to the server address
\* when the 30 s event expires and moves to WaitPong with a new 5 s event;
\* in WaitPong it sends nothing and reads nothing until that event expires,
\* then reads one datagram, and returns to WaitPing with a new 30 s event
\* only if that datagram is a Pong from the server address; otherwise
\* (other source, other message, nothing read) it terminates.
C28_PingPongMachine ==
    [][PingPass =>
          /\ pState \in {"WaitPing", "WaitPong"}
          /\ pState = "WaitPing" => InWaitPing
          /\ pState = "WaitPong" => InWaitPong]_vars

\* The PING worker has sent a second Ping after a Pong from the server, and
\* a Pong from another address is what it reads next.
C28_SecondPingSent ==
    /\ Len(pinged) = 2
    /\ pState = "WaitPong"
    /\ pongIn # <<>>
    /\ Head(pongIn).from # server_addr


\* C29 as stated: a receive worker that has spawned a PING worker finishes
\* only by joining it, after it has sent it Stop; also when the PING worker
\* has already terminated on its own.
C29_ExitsThroughJoin ==
    [][rPc # "done" /\ rPc' = "done" /\ ping_control' =>
          /\ rPc = "join_ping"
          /\ pPc = "done"
          /\ rResult' = pResult]_vars

\* What holds: the receive worker joins a PING worker that was still running
\* when it left its loop; when the PING worker had terminated it returns the
\* error of the send.
C29_JoinsRunningPingWorker ==
    [][rPc # "done" /\ rPc' = "done" /\ ping_control' =>
          \/ rPc = "join_ping" /\ pPc = "done" /\ rResult' = pResult
          \/ rPc = "run" /\ pPc = "done" /\ rResult' = "send_error"]_vars


(***************************************************************************)
(* Properties of the Server Root's accept arm (SpecServer).                *)
(***************************************************************************)
\* The step is a pass of the Server Root's loop that calls listener.accept().
AcceptAttempt ==
    /\ rootPc = "run"
    /\ rootTimer' # rootTimer
    /\ rootPc' = "run"
    /\ IsExpiredEvent(LoopSleep(rootTimer), ACCEPT_EVENT)

\* Sleeps of the loop until the accept event of timer t is expired; every
\* pass sleeps once.
SleepsToAccept(t) ==
    IF EventIsExpired(t[ACCEPT_EVENT]) THEN 1
    ELSE (t[ACCEPT_EVENT].bound \div TICK_MILLIS) - t[ACCEPT_EVENT].counter

\* An attempt takes the oldest pending connection, if there is one, and
\* starts one Handler for it, the last of the handlers list.
OneHandlerPerAccept ==
    IF listener = <<>>
    THEN handlers' = handlers /\ listener' = listener
    ELSE /\ listener' = Tail(listener)
         /\ handlers' = Append(handlers, Head(listener))
         /\ hPc[Head(listener)] = "idle"
         /\ hPc'[Head(listener)] = "run"

\* C30 as stated: the Server Root calls accept only when its 100 ms accept
\* event is expired and takes zero or one pending connection per attempt,
\* each giving one new Handler at the end of the handlers list; successive
\* attempts are at least ACCEPT_MILLIS (10 ticks) apart.
C30_AcceptEveryPeriod ==
    [][/\ (rootPc = "run" /\ handlers' # handlers => AcceptAttempt)
       /\ (AcceptAttempt =>
              /\ OneHandlerPerAccept
              /\ SleepsToAccept(rootTimer') >= ACCEPT_MILLIS \div TICK_MILLIS)]_vars

\* What holds: the same, but after the first expiry of the accept event the
\* next attempt comes with the next pass of the loop, one tick later.
C30_AcceptEveryPass ==
    [][/\ (rootPc = "run" /\ handlers' # handlers => AcceptAttempt)
       /\ (AcceptAttempt =>
              /\ OneHandlerPerAccept
              /\ SleepsToAccept(rootTimer') = 1)]_vars

(***************************************************************************)
(* SpecPair: one client and the session that serves it, from the accepted  *)
(* connection on.  The client has bound its receive socket, written its    *)
(* request and started its receive worker up to MaxClientPhase ticks before *)
(* the Handler starts.  Both processes tick alike; of the workers of both  *)
(* the one whose loop body is due first runs next.  A datagram that is     *)
(* sent is in the socket it is sent to when send_to returns; no send, bind *)
(* or receive fails, nobody sends Stop, the connection stays open and the   *)
(* request arrives whole.                                                  *)
(***************************************************************************)
PairPending == PendingWakes \cup ClientPending

PairCanStep(w) == ~Urgent /\ ~ClientUrgent /\ PairPending # {} /\ w = MinOf(PairPending)

InitPair ==
    /\ NoUnits
    /\ SessionStarted
    /\ tickerOrder = SomeOrder
    /\ \E phase \in 0..MaxClientPhase : ClientStarted(phase)

\* What of the client a step of a server worker leaves alone, the two
\* sockets apart; what of the server a step of a client worker leaves alone,
\* the Streamer's socket apart.
ClientAside ==
    UNCHANGED <<rPc, rTimer, rChan, rConnected, ping_control, rResult, rExit, pPc, pTimer,
                pState, pChan, pConnected, pResult, pExit, pinged, server_addr, arrived,
                printed>>

ServerAside == UNCHANGED <<rootVars, genVars, hVars, sVars, conn, wire, rcv, obsVars>>

\* d ticks pass for the workers of both processes.  The client has written
\* its request before it started its receive worker, and the request is not
\* held back on its way.
PairAfter(d, kind, id) ==
    /\ written[Head(handlers)] # <<>>
    /\ wire[Head(handlers)] = <<>>
    /\ WakeAfter(d, IF kind \in {"r", "p"} THEN "none" ELSE kind, id)
    /\ ClientAfter(d, IF kind \in {"r", "p"} THEN kind ELSE "none")
    /\ Pass(d, MaxPairTicks)
    /\ UNCHANGED unitVars

PingFrom(addr) == [kind |-> "data", bytes |-> to_stdvec(PingMsg), from |-> addr]

PongFrom(addr) == [kind |-> "data", bytes |-> to_stdvec(PongMsg), from |-> addr]

QuoteFrom(addr, q) == [kind |-> "data", bytes |-> to_stdvec(QuoteMsg(q)), from |-> addr]

\* The port the client receives quotes on is the port of its request.
ClientPort == written[Head(handlers)][1].port

\* The Streamer's pass; the Pong of check_ping goes to the PING worker.
PairStreamer ==
    \E i \in Sessions :
        /\ PairCanStep(wake.s[i])
        /\ StreamerStep(i)
        /\ sExit'[i] # "ping_error"
        /\ pongIn' = IF StreamerBody(i, LoopSleep(sTimer[i]), FALSE).ping.pong = "client"
                     THEN Append(pongIn, PongFrom("server"))
                     ELSE pongIn
        /\ UNCHANGED quoteIn
        /\ ClientAside
        /\ PairAfter(wake.s[i], "s", i)

\* The quotes that the callback has sent, in the order of the batch.
QuotesOf(batch, call) ==
    SelectSeq(batch, LAMBDA q : \E k \in 1..Len(call.sent) :
                                    /\ call.sent[k].ticker = q.ticker
                                    /\ call.sent[k].to = ClientPort)

\* The Generator's pass; the quotes of the callback go to the receive socket
\* from the Streamer's socket, which the callback shares.
PairGenerator ==
    /\ PairCanStep(wake.gen)
    /\ GeneratorStep
    /\ lastCall'.failAt = 0
    /\ IF timestamp_counter' # timestamp_counter
       THEN \E draws \in [Configured -> VolumeDraws] :
              LET sent == QuotesOf(generate_quotes(tickerOrder, timestamp_counter, draws),
                                   lastCall')
              IN quoteIn' = quoteIn \o [k \in 1..Len(sent) |-> QuoteFrom("server", sent[k])]
       ELSE UNCHANGED quoteIn
    /\ UNCHANGED pongIn
    /\ ClientAside
    /\ PairAfter(wake.gen, "gen", 0)

PairHandler ==
    \E i \in Sessions :
        /\ PairCanStep(wake.h[i])
        /\ HandlerStep(i)
        /\ UNCHANGED <<quoteIn, pongIn>>
        /\ ClientAside
        /\ PairAfter(wake.h[i], "h", i)

\* The receive worker's pass; PingPong::start binds its port.
PairReceive ==
    /\ PairCanStep(cWake.r)
    /\ ReceiveWork
    /\ rExit' # "spawn"
    /\ UNCHANGED udpIn
    /\ ServerAside
    /\ PairAfter(cWake.r, "r", 0)

\* The PING worker's pass; its Ping goes to the socket the first quote came
\* from, the Streamer's.
PairPing ==
    /\ PairCanStep(cWake.p)
    /\ PingWork
    /\ pExit' # "ping"
    /\ udpIn' = IF Len(pinged') > Len(pinged) /\ server_addr = "server"
                THEN [udpIn EXCEPT ![Head(handlers)] = Append(@, PingFrom("client"))]
                ELSE udpIn
    /\ ServerAside
    /\ PairAfter(cWake.p, "p", 0)

PairRequest == ClientWrites(RequestFrames)

NextPair ==
    \/ StartStreamer
    \/ PairRequest
    \/ ArriveAll
    \/ PairStreamer
    \/ PairGenerator
    \/ PairHandler
    \/ PairReceive
    \/ PairPing

SpecPair == InitPair /\ [][NextPair]_vars

\* C31: in a run without datagram loss and without Stop, in which the client
\* subscribes to a configured ticker, no Streamer exits on PING timeout and
\* the count of silent check_ping polls stays below the limit of 400: the
\* first Ping and every next one arrive in time.
C31_NoPingTimeout ==
    \A i \in Sessions :
        /\ sExit[i] # "ping_timeout"
        /\ wait_ping_counter[i] < PingLimit

\* The Streamer has answered the client's second Ping, 35 s after the first.
C31_SecondPingAnswered ==
    /\ Len(pinged) = 2
    /\ sPc[Head(handlers)] = "run"
    /\ udpIn[Head(handlers)] = <<>>
    /\ wait_ping_counter[Head(handlers)] = 0
    /\ Len(pongIn) = 1

(***************************************************************************)
(* SpecEvents: the timers of all six worker loops.  Either the whole       *)
(* server runs as in SpecServer (Server Root, Handlers, Streamers,         *)
(* Generator), or one client and its session run as in SpecPair (Handler,  *)
(* Streamer, Generator, receive worker, PING worker).                      *)
(***************************************************************************)
InitEvents == InitServer \/ InitPair

EventsServer == rootPc # "outside" /\ NextServer

EventsPair == rootPc = "outside" /\ NextPair

NextEvents == EventsServer \/ EventsPair

SpecEvents == InitEvents /\ [][NextEvents]_vars

\* The names are events of the timer: is_expired_event, reset_event and
\* remove_event return Ok for them.
Registered(t, names) == names \subseteq DOMAIN t

\* C32: no worker hits the timer's unknown-event error: whenever a worker is
\* in its loop, the event names its loop body passes to is_expired_event,
\* reset_event or remove_event are registered in its timer; the PING worker
\* has the ping event registered exactly while in WaitPing and the pong
\* event exactly while in WaitPong.
C32_EventsRegistered ==
    /\ rootPc = "run" => Registered(rootTimer, {ACCEPT_EVENT, WAIT_CMD_EVENT})
    /\ genPc = "run" => Registered(genTimer, {WAIT_CMD_EVENT, WAIT_CALLBACK_EVENT})
    /\ \A i \in Sessions :
          hPc[i] = "run" => Registered(hTimer[i], {WAIT_CMD_EVENT, CHECK_TCP_CMD_EVENT})
    /\ \A i \in Sessions :
          sPc[i] = "run" =>
              Registered(sTimer[i], {WAIT_CMD_EVENT, CHECK_PING_EVENT, STREAM_EVENT})
    /\ rPc = "run" => Registered(rTimer, {WAIT_CMD_EVENT, WAIT_QUOTES_EVENT})
    /\ pPc = "run" =>
          /\ Registered(pTimer, {WAIT_CMD_EVENT})
          /\ Registered(pTimer, {WAIT_PING_EVENT}) <=> pState = "WaitPing"
          /\ Registered(pTimer, {WAIT_PONG_EVENT}) <=> pState = "WaitPong"

\* The PING worker has replaced the ping event by the pong event for the
\* second time.
C32_PongEventRegisteredAgain ==
    /\ pPc = "run"
    /\ pState = "WaitPong"
    /\ Len(pinged) = 2
    /\ DOMAIN pTimer = {WAIT_CMD_EVENT, WAIT_PONG_EVENT}
    /\ pTimer[WAIT_PONG_EVENT].counter > 0

(***************************************************************************)
(* SpecOrphan: one session followed for as long as it lasts, as SpecLive,  *)
(* with a client that writes up to MaxReqs frames of any kind during the   *)
(* first MaxLiveTicks ticks and that keeps sending Pings once the Handler  *)
(* thread has finished, so that the silence limit does not end a Streamer  *)
(* left behind.                                                            *)
(***************************************************************************)
WriteFrames ==
    \E i \in Sessions, f \in Frames :
        /\ clock < MaxLiveTicks
        /\ ClientWrite(i, f)
        /\ UNCHANGED <<timeVars, farVars>>

PingsOrphan ==
    \E i \in Sessions :
        /\ hPc[i] = "done"
        /\ BeforeStreamerPoll(i)
        /\ SendDatagram(i, PingFrom("client"))
        /\ UNCHANGED <<timeVars, farVars>>

NextOrphan ==
    \/ Workers
    \/ WriteFrames
    \/ Arrive
    \/ Flush
    \/ EarlyClose
    \/ PingsOrphan

SpecOrphan ==
    /\ Init
    /\ [][NextOrphan]_vars
    /\ WF_vars(Workers)
    /\ WF_vars(Flush)

\* The Handler thread of session i has finished and its Streamer runs on.
Orphaned(i) == hPc[i] = "done" /\ sPc[i] = "run"

\* A pass of the orphaned Streamer that polls its control channel.
OrphanPolls(i) == Orphaned(i) /\ sTimer'[i] # sTimer[i] /\ PollsNext(sTimer[i])

\* The callbacks of Streamer i in the Generator's queue.
QueuedBy(i, q) == Cardinality({k \in 1..Len(q) : q[k].sid = i})

\* A Streamer that has exited stays exited and submits nothing.
ExitedIsSilent(i) == sPc[i] = "done" => sPc'[i] = "done" /\ QueuedBy(i, cbq') <= QueuedBy(i, cbq)

====
